---- MODULE Spec2Model ----
(***************************************************************************)
(* docChat ingestion pipeline: the BullMQ worker (file-ready, hard-delete), *)
(* the QueueEvents status relay, the documents routes (list with           *)
(* auto-reconcile, manual reconcile, soft and hard delete) and the upload  *)
(* route, over the Mongo "documents" collection, the GridFS blobs, the     *)
(* Qdrant collections and the scratch files under os.tmpdir().             *)
(***************************************************************************)
EXTENDS Integers, Sequences, FiniteSets, TLC

(***************************************************************************)
(* Bounds of the model.                                                    *)
(***************************************************************************)
MaxDocs == 2
NumWorkers == 2
MaxEvents == 2
MaxPoints == 4
MaxTicks == 3
MaxRecon == 1
MaxHardDeletes == 1

\* bulk delete requests served at the same time
MaxBulk == 1
MaxStalls == 1
MaxPasses == 2

(***************************************************************************)
(* Program constants.                                                      *)
(***************************************************************************)
OCR_TEXT_MIN_THRESHOLD == 800
STALE_MS == 20000
TickMs == STALE_MS \div 2
HARD_DELETE_ATTEMPTS == 3
NullPages == -1

OCR_ENABLED == TRUE

DocIds == 1..MaxDocs
\* the document of the single-document scenarios: the first one uploaded
FirstDoc == {1}
Workers == 1..NumWorkers
Owners == {"u1", "u2"}
Conns == {"c1", "c2"}
NoRow == [status |-> "absent"]
NoConf == [sum |-> 0, cnt |-> 0]

(***************************************************************************)
(* Pure helpers.                                                           *)
(***************************************************************************)
RECURSIVE SumLen(_)
SumLen(pages) ==
  IF pages = <<>> THEN 0 ELSE Head(pages).len + SumLen(Tail(pages))

\* extractWithPdfLoader: one text block per page, totalTextLen their sum
TotalTextLen(pages) == SumLen(pages)

\* d.pageContent?.trim() is empty for every page
AllBlank(pages) == \A i \in 1..Len(pages) : pages[i].blank

\* native pages as baseDocs: metadata.ocr = false
NativeDocs(pages) ==
  [i \in 1..Len(pages) |-> [len |-> pages[i].len, blank |-> pages[i].blank, ocr |-> FALSE]]

\* a decision that looks at the text length only
ShouldOCRLenOnly(pages) ==
  OCR_ENABLED /\ TotalTextLen(pages) < OCR_TEXT_MIN_THRESHOLD

ShouldOCR(pages) ==
  OCR_ENABLED /\ (TotalTextLen(pages) < OCR_TEXT_MIN_THRESHOLD \/ AllBlank(pages))

\* ocrImagesToDocuments: text is trimmed, so a page is blank iff its length is 0;
\* meanConf is kept as the pair (sumConf, confCount), cnt = 0 standing for null
RECURSIVE SumConf(_)
SumConf(confs) ==
  IF confs = <<>> THEN NoConf
  ELSE LET r == SumConf(Tail(confs))
       IN IF Head(confs) >= 0
          THEN [sum |-> r.sum + Head(confs), cnt |-> r.cnt + 1]
          ELSE r

\* OCR pages pushed with the metadata of native pages
OcrImagesToDocumentsUnflagged(lens, confs) ==
  LET docs == [i \in 1..Len(lens) |-> [len |-> lens[i], blank |-> lens[i] = 0, ocr |-> FALSE]]
  IN [docs |-> docs, textLen |-> SumLen(docs), meanConf |-> SumConf(confs)]

OcrImagesToDocuments(lens, confs) ==
  LET docs == [i \in 1..Len(lens) |-> [len |-> lens[i], blank |-> lens[i] = 0, ocr |-> TRUE]]
  IN [docs |-> docs, textLen |-> SumLen(docs), meanConf |-> SumConf(confs)]

\* (a.meanConf || 0) > (b.meanConf || 0) on the pairs, without division
ConfGreater(a, b) ==
  LET an == IF a.cnt = 0 THEN 0 ELSE a.sum
      ad == IF a.cnt = 0 THEN 1 ELSE a.cnt
      bn == IF b.cnt = 0 THEN 0 ELSE b.sum
      bd == IF b.cnt = 0 THEN 1 ELSE b.cnt
  IN an * bd > bn * ad

\* let best = { docs: null, textLen: -1, meanConf: -1, dpi: null, pages: 0 }
BestInit ==
  [hasDocs |-> FALSE, docs |-> <<>>, textLen |-> -1,
   meanConf |-> [sum |-> -1, cnt |-> 1], dpi |-> 0]

\* a test that also replaces the best pass by one that merely equals it
BetterOrEqual(pass, best) ==
  \/ pass.textLen > best.textLen
  \/ pass.textLen = best.textLen /\ ~ConfGreater(best.meanConf, pass.meanConf)

Better(pass, best) ==
  \/ pass.textLen > best.textLen
  \/ pass.textLen = best.textLen /\ ConfGreater(pass.meanConf, best.meanConf)

\* one iteration of the loop over EFFECTIVE_DPIS for a pass that produced PNGs
BestStep(best, pass, dpi) ==
  IF Better(pass, best)
  THEN [hasDocs |-> TRUE, docs |-> pass.docs, textLen |-> pass.textLen,
        meanConf |-> IF pass.meanConf.cnt = 0 THEN [sum |-> 0, cnt |-> 1] ELSE pass.meanConf,
        dpi |-> dpi]
  ELSE best

\* if (!best.docs || best.textLen <= 0) keep native; else baseDocs = best.docs
UseOcr(best) == best.hasDocs /\ ~(best.textLen <= 0)

ChooseBase(nativeDocs, best) == IF UseOcr(best) THEN best.docs ELSE nativeDocs


(***************************************************************************)
(* External inputs: what an uploaded PDF contains and what rasterizing and *)
(* recognising it yields at each configured DPI candidate.                 *)
(***************************************************************************)
EFFECTIVE_DPIS == <<150, 300>>

Kinds == {"native", "scanned", "lowtext", "empty", "padded"}

PdfPages(k) ==
  CASE k = "native"  -> << [len |-> 1500, blank |-> FALSE], [len |-> 1500, blank |-> FALSE] >>
    [] k = "scanned" -> << [len |-> 0, blank |-> TRUE] >>
    [] k = "lowtext" -> << [len |-> 100, blank |-> FALSE] >>
    [] k = "padded"  -> << [len |-> 900, blank |-> TRUE] >>
    [] OTHER         -> << [len |-> 0, blank |-> TRUE] >>

\* page text lengths and confidences Tesseract reports at the i-th DPI candidate;
\* no lengths = pdftoppm produced 0 PNGs
PdfOcrLens(k, i) ==
  CASE k = "scanned" -> IF i = 1 THEN <<400>> ELSE <<900>>
    [] k = "lowtext" -> <<50>>
    [] k = "padded"  -> <<300>>
    [] k = "native"  -> <<1400, 1400>>
    [] OTHER         -> <<>>

PdfOcrConfs(k, i) ==
  CASE k = "scanned" -> IF i = 1 THEN <<60>> ELSE <<80>>
    [] k = "lowtext" -> <<-1>>
    [] k = "padded"  -> <<70>>
    [] k = "native"  -> <<90, 90>>
    [] OTHER         -> <<>>

\* CharacterTextSplitter(1000, 200).splitDocuments: a page whose trimmed text is
\* empty yields no chunk, any other page (no paragraph separator) one chunk
RECURSIVE ChunkCount(_)
ChunkCount(docs) ==
  IF docs = <<>> THEN 0
  ELSE (IF Head(docs).blank THEN 0 ELSE 1) + ChunkCount(Tail(docs))

(***************************************************************************)
(* State.                                                                  *)
(***************************************************************************)
VARIABLES
  rows,      \* documents collection: [DocIds -> row or NoRow]
  kind,      \* the PDF stored for each document id ("none" before upload)
  blobs,     \* GridFS blobs that exist (by the document they belong to)
  vec,       \* Qdrant: points in collection pdf_<id>, -1 = no such collection
  tmpPdf,    \* os.tmpdir()/<id>.pdf: [st, last]
  ocrDir,    \* os.tmpdir()/<id>_ocr: the dpi_<n> subdirectories holding PNGs
  jobs,      \* BullMQ jobs, a sequence in order of queue.add
  wk,        \* worker slots: [Workers -> local state of the running handler]
  events,    \* QueueEvents stream, not yet handled by the relay
  clients,   \* SSE registry: [Owners -> set of live connections]
  lastPush,  \* the latest pushToUser call and the connections it wrote to
  recon,     \* reconcile requests in flight (between their read and their write)
  ticks,     \* wall clock, in steps of TickMs
  faults,    \* the external failures the environment may inject in this run
  sel,       \* a run of the OCR selection on its own: inputs, position, best pass
  fixed,     \* history: the repairs the reconciler wrote, [doc, manual]
  relayDone, \* history: documents whose completed/failed event the relay persisted
  finPages,  \* history: the pages values written by the finalize step, per document
  chk,       \* a run of the text splitter on its own: pages, position, chunks
  prog,      \* history: the progress stages each worker's running attempt published
  bulk,      \* bulk hard-delete requests in flight: [user, docs found, ph]
  keys,      \* SSE registry: the userIds that are keys of the Map
  auth       \* the userId each live connection's request authenticated as

vars == <<rows, kind, blobs, vec, tmpPdf, ocrDir, jobs, wk, events, clients,
          lastPush, recon, ticks, faults, sel, fixed, relayDone, finPages, chk,
          prog, bulk, keys, auth>>

\* what no action of the pipeline changes
quiet == <<faults, sel, fixed, chk, bulk, keys, auth>>

\* what only the steps of handleFileReady that publish progress change
env == <<quiet, prog>>

Now == ticks * TickMs

IdleWorker ==
  [pc |-> "idle", job |-> 0, doc |-> 0, own |-> "", dpi |-> 0, best |-> BestInit,
   cause |-> "", thrown |-> "", why |-> "", errW |-> FALSE, errP |-> FALSE,
   emb |-> -2]

NoPdf == [st |-> "absent", last |-> 0]

NoPush ==
  [n |-> 0, owner |-> "", type |-> "", doc |-> 0, status |-> "",
   pages |-> NullPages, to |-> {}, others |-> {}, saved |-> TRUE]

AllFaults ==
  {"progress", "store", "blob", "scratch", "extract", "ocr", "index", "qdrant", "gridfs"}

NoSel ==
  [ph |-> "off", native |-> <<>>, passes |-> <<>>, i |-> 0, best |-> BestInit,
   out |-> <<>>, usedOcr |-> FALSE]

Colls == 0..MaxDocs

\* one collection name given to every document
CollectionOfAll(d) == 1

\* const collection = `pdf_${String(_id)}`; 0 stands for a collection that is
\* named on no document row
CollectionOf(d) == d

InitPipeline(fs) ==
  /\ faults = fs
  /\ fixed = {}
  /\ relayDone = {}
  /\ rows = [d \in DocIds |-> NoRow]
  /\ kind = [d \in DocIds |-> "none"]
  /\ blobs = {}
  /\ vec = [c \in Colls |-> -1]
  /\ tmpPdf = [d \in DocIds |-> NoPdf]
  /\ ocrDir = [d \in DocIds |-> {}]
  /\ jobs = <<>>
  /\ wk = [w \in Workers |-> IdleWorker]
  /\ events = <<>>
  /\ clients = [u \in Owners |-> {}]
  /\ lastPush = NoPush
  /\ recon = {}
  /\ ticks = 0
  /\ finPages = [d \in DocIds |-> <<>>]
  /\ prog = [w \in Workers |-> <<>>]
  /\ bulk = {}
  /\ keys = {}
  /\ auth = [c \in Conns |-> "none"]

NoChk == [ph |-> "off", pages |-> <<>>, p |-> 0, out |-> <<>>]

InitWith(fs) == InitPipeline(fs) /\ sel = NoSel /\ chk = NoChk

Init == InitWith(AllFaults)

(***************************************************************************)
(* SSE registry and pushToUser.                                            *)
(***************************************************************************)
\* the connections registered under the users other than u
OthersOf(u) == UNION {clients[v] : v \in Owners \ {u}}

\* a push written to every connection of every user
PushToAll(u, type, d, status, pages) ==
  lastPush' = [n |-> 1 - lastPush.n, owner |-> u, type |-> type, doc |-> d,
               status |-> status, pages |-> pages, to |-> UNION {clients[v] : v \in Owners},
               others |-> OthersOf(u), saved |-> TRUE]

\* pushToUser(userId, "doc", data): written to every connection of userId
PushToUser(u, type, d, status, pages) ==
  lastPush' = [n |-> 1 - lastPush.n, owner |-> u, type |-> type, doc |-> d,
               status |-> status, pages |-> pages,
               to |-> IF u \in keys THEN clients[u] ELSE {}, others |-> OthersOf(u),
               saved |-> TRUE]

\* a handler whose persist error leaves it before the push
NoPushAfterThrow(u, type, d, status, pages) == UNCHANGED lastPush

\* the same call made after the handler's persist step threw and was caught
PushAfterCaught(u, type, d, status, pages) ==
  lastPush' = [n |-> 1 - lastPush.n, owner |-> u, type |-> type, doc |-> d,
               status |-> status, pages |-> pages, to |-> clients[u], others |-> OthersOf(u),
               saved |-> FALSE]

\* sseHandler(req, res, userId), userId taken from the request's auth:
\* if (!clients.has(userId)) clients.set(userId, new Set());
\* clients.get(userId).add(res)
Connect(u, c) ==
  /\ \A v \in Owners : c \notin clients[v]
  /\ keys' = keys \cup {u}
  /\ clients' = [clients EXCEPT ![u] = (IF u \in keys THEN @ ELSE {}) \cup {c}]
  /\ auth' = [auth EXCEPT ![c] = u]
  /\ UNCHANGED <<rows, kind, blobs, vec, tmpPdf, ocrDir, jobs, wk, events, lastPush,
                 recon, ticks, faults, sel, fixed, chk, bulk, prog, relayDone,
                 finPages>>

\* a close handler that leaves the user's key in the Map
KeysAfterCloseKept(ks, u, left) == ks

\* if (set.size === 0) clients.delete(userId)
KeysAfterClose(ks, u, left) == IF left = {} THEN ks \ {u} ELSE ks

\* req.on("close"): set = clients.get(userId); if (set) { set.delete(res);
\* if the set is now empty the key is deleted }
Close(u, c) ==
  /\ c \in clients[u]
  /\ clients' = [clients EXCEPT ![u] = IF u \in keys THEN @ \ {c} ELSE @]
  /\ keys' = IF u \in keys THEN KeysAfterClose(keys, u, clients[u] \ {c}) ELSE keys
  /\ auth' = [auth EXCEPT ![c] = "none"]
  /\ UNCHANGED <<rows, kind, blobs, vec, tmpPdf, ocrDir, jobs, wk, events, lastPush,
                 recon, ticks, faults, sel, fixed, chk, bulk, prog, relayDone,
                 finPages>>

(***************************************************************************)
(* POST /files/upload.                                                     *)
(***************************************************************************)
NewJob(name, d, u, attempts) ==
  [name |-> name, doc |-> d, owner |-> u, st |-> "wait", att |-> 0,
   attempts |-> attempts, stl |-> 0, holder |-> 0]

\* the attempts a job would have if the Worker's defaultJobOptions applied to it
FileReadyAttemptsOfWorkerDefaults == HARD_DELETE_ATTEMPTS

\* queue.add("file-ready", ..., { removeOnComplete, removeOnFail }): no attempts
\* option and no defaultJobOptions on the Queue, so BullMQ runs it once
FILE_READY_ATTEMPTS == 1

Upload(d, u, k) ==
  /\ rows[d] = NoRow
  /\ kind[d] = "none"
  /\ \A e \in 1..(d - 1) : kind[e] # "none"
  /\ blobs' = blobs \cup {d}
  /\ kind' = [kind EXCEPT ![d] = k]
  /\ rows' = [rows EXCEPT ![d] =
       [status |-> "queued", ownerId |-> u, pages |-> NullPages, error |-> "",
        deletedAt |-> FALSE, createdAt |-> Now]]
  /\ jobs' = Append(jobs, NewJob("file-ready", d, u, FILE_READY_ATTEMPTS))
  /\ UNCHANGED <<vec, tmpPdf, ocrDir, wk, events, clients, lastPush, recon, ticks, env, relayDone, finPages>>


(***************************************************************************)
(* BullMQ: job events, job hand-out, completion and failure.               *)
(***************************************************************************)
ProgressEv(u, d, status, pct, stage) ==
  [type |-> "progress", owner |-> u, doc |-> d, status |-> status, pct |-> pct,
   stage |-> stage, pages |-> NullPages, name |-> ""]

\* the 'completed' event carries the handler's return value
CompletedEv(u, d, pages) ==
  [type |-> "completed", owner |-> u, doc |-> d, status |-> "", pct |-> 0,
   stage |-> "", pages |-> pages, name |-> "file-ready"]

\* the value handleHardDelete returns, with the ids a handler must not return
HdReturnValueWithIds(w) ==
  [CompletedEv(wk[w].own, wk[w].doc, NullPages) EXCEPT !.name = "hard-delete"]

\* { skipped: true } and { deleted: true }: no ownerId, no docId
HdReturnValue(w) ==
  [CompletedEv("", 0, NullPages) EXCEPT !.name = "hard-delete"]

\* the 'failed' event carries { jobId, failedReason, prev }: no data, so no
\* ownerId and no docId
FailedEv(reason) ==
  [type |-> "failed", owner |-> "", doc |-> 0, status |-> "", pct |-> 0,
   stage |-> reason, pages |-> NullPages, name |-> ""]

Room == Len(events) < MaxEvents

\* await job.updateProgress(...) inside the pipeline: the event is published, or
\* the call rejects
Emit(ev) == Room /\ events' = Append(events, ev)

\* try { await job.updateProgress(...) } catch {}: published, or the rejection
\* is swallowed
EmitSwallow(ev) == \/ Room /\ events' = Append(events, ev)
                   \/ "progress" \in faults /\ events' = events

SetWk(w, r) == wk' = [wk EXCEPT ![w] = r]

\* a worker fetches the next waiting job and takes its lock
Take(w) ==
  /\ wk[w].pc = "idle"
  /\ \E j \in 1..Len(jobs) :
       /\ jobs[j].st = "wait"
       /\ \A i \in 1..(j - 1) : jobs[i].st # "wait"
       /\ jobs' = [jobs EXCEPT ![j].st = "active", ![j].holder = w]
       /\ SetWk(w, [IdleWorker EXCEPT
            !.pc = IF jobs[j].name = "file-ready" THEN "fr_load" ELSE "hd_check",
            !.job = j, !.doc = jobs[j].doc, !.own = jobs[j].owner])
  /\ UNCHANGED <<rows, kind, blobs, vec, tmpPdf, ocrDir, events, clients, lastPush,
                 recon, ticks, env, relayDone, finPages>>

\* the lock of an active job expires (its worker is blocked, disconnected or
\* dead) and the stalled-jobs check moves it back to wait: maxStalledCount
\* redeliveries at most
Stall(j) ==
  /\ j \in 1..Len(jobs)
  /\ jobs[j].st = "active"
  /\ jobs[j].stl < MaxStalls
  /\ jobs' = [jobs EXCEPT ![j].st = "wait", ![j].holder = 0, ![j].stl = @ + 1]
  /\ UNCHANGED <<rows, kind, blobs, vec, tmpPdf, ocrDir, wk, events, clients,
                 lastPush, recon, ticks, env, relayDone, finPages>>

HoldsLock(w) == jobs[wk[w].job].st = "active" /\ jobs[wk[w].job].holder = w

\* the handler returned rv: moveToCompleted (refused when the lock was lost)
JobCompleted(w, ev) ==
  IF HoldsLock(w)
  THEN /\ Room
       /\ jobs' = [jobs EXCEPT ![wk[w].job].st = "completed", ![wk[w].job].holder = 0]
       /\ events' = Append(events, ev)
  ELSE UNCHANGED <<jobs, events>>

\* the handler threw: moveToFailed retries while attemptsMade < attempts
JobFailed(w, reason) ==
  IF HoldsLock(w)
  THEN IF jobs[wk[w].job].att + 1 < jobs[wk[w].job].attempts
       THEN /\ jobs' = [jobs EXCEPT ![wk[w].job].st = "wait", ![wk[w].job].holder = 0,
                                    ![wk[w].job].att = @ + 1]
            /\ UNCHANGED events
       ELSE /\ Room
            /\ jobs' = [jobs EXCEPT ![wk[w].job].st = "failed", ![wk[w].job].holder = 0,
                                    ![wk[w].job].att = @ + 1]
            /\ events' = Append(events, FailedEv(reason))
  ELSE UNCHANGED <<jobs, events>>

(***************************************************************************)
(* Scratch files of a document: <tmpdir>/<id>.pdf and <tmpdir>/<id>_ocr.    *)
(***************************************************************************)
\* fs.createWriteStream(tmpPath): creates or truncates the file at the path
OpenForWrite(f, w) == [st |-> "partial", last |-> w]

\* "finish" of a write stream: every attempt writes the same bytes, so the path
\* holds the whole PDF once the stream that truncated it last has finished; a
\* stream whose file was unlinked or truncated again completes nothing
FinishWrite(f, w) ==
  IF f.last = w THEN [st |-> "full", last |-> 0] ELSE f

\* outcomes of parsing / rasterizing the file at the path
ReadOutcomes(f) ==
  CASE f.st = "full"    -> {"ok"}
    [] f.st = "partial" -> {"ok", "bad"}
    [] OTHER            -> {"bad"}

\* a finally block that forgets the OCR directory
CleanupPdfOnly(d) ==
  /\ tmpPdf' = [tmpPdf EXCEPT ![d] = NoPdf]
  /\ UNCHANGED ocrDir

\* finally { safeUnlink(tmpPdf); safeRmdir(ocrRoot); }
Cleanup(d) ==
  /\ tmpPdf' = [tmpPdf EXCEPT ![d] = NoPdf]
  /\ ocrDir' = [ocrDir EXCEPT ![d] = {}]


(***************************************************************************)
(* handleFileReady, one action per await.  A failure inside the try block  *)
(* records its cause and why it happened: "ext" an external failure,       *)
(* "content" the document's own content, "race" a scratch file another     *)
(* attempt removed or is rewriting, "deleted" a blob removed by a delete.  *)
(***************************************************************************)
Fail(w, cause, why) ==
  SetWk(w, [wk[w] EXCEPT !.pc = "fr_catch", !.cause = cause, !.why = why])

\* the stage joins what the attempt of worker w has published
Published(w, pct, stage) ==
  prog' = [prog EXCEPT ![w] = Append(@, [pct |-> pct, stage |-> stage])]

\* the attempt of worker w is over
Forget(w) == prog' = [prog EXCEPT ![w] = <<>>]

\* an in-pipeline job.updateProgress either publishes the stage or rejects
TryProgress(w, pct, stage, rest) ==
  \/ /\ Emit(ProgressEv(wk[w].own, wk[w].doc, "processing", pct, stage))
     /\ Published(w, pct, stage)
     /\ rest
  \/ /\ "progress" \in faults
     /\ Fail(w, "ProgressFailed", "ext")
     /\ UNCHANGED <<rows, kind, blobs, vec, tmpPdf, ocrDir, jobs, events, clients,
                    lastPush, recon, ticks, env, relayDone, finPages>>

\* findOne; "Doc not found"; updateOne(status: processing); progress "start"
FrLoad(w) ==
  /\ wk[w].pc = "fr_load"
  /\ LET d == wk[w].doc IN
     \/ /\ rows[d] = NoRow
        /\ SetWk(w, [wk[w] EXCEPT !.pc = "fr_throw", !.thrown = "Doc not found"])
        /\ UNCHANGED <<rows, events, prog>>
     \/ /\ rows[d] # NoRow
        /\ "store" \in faults
        /\ SetWk(w, [wk[w] EXCEPT !.pc = "fr_throw", !.thrown = "StoreWriteFailed"])
        /\ UNCHANGED <<rows, events, prog>>
     \/ /\ rows[d] # NoRow
        /\ rows' = [rows EXCEPT ![d].status = "processing"]
        /\ EmitSwallow(ProgressEv(wk[w].own, d, "processing", 5, "start"))
        /\ IF events' # events THEN Published(w, 5, "start") ELSE UNCHANGED prog
        /\ SetWk(w, [wk[w] EXCEPT !.pc = "fr_download"])
  /\ UNCHANGED <<kind, blobs, vec, tmpPdf, ocrDir, jobs, clients, lastPush, recon,
                 ticks, quiet, relayDone, finPages>>

\* progress "download"; gridfsToTempPdf opens the two streams.  An error of the
\* GridFS read stream has no listener (only the write stream's is wired to
\* reject): it is an uncaught exception that ends the worker process
FrDownload(w) ==
  /\ wk[w].pc = "fr_download"
  /\ LET d == wk[w].doc IN
     TryProgress(w, 10, "download",
       /\ tmpPdf' = [tmpPdf EXCEPT ![d] = OpenForWrite(@, w)]
       /\ \/ /\ d \in blobs
             /\ SetWk(w, [wk[w] EXCEPT !.pc = "fr_dlfinish"])
          \/ /\ d \in blobs
             /\ "blob" \in faults
             /\ SetWk(w, [wk[w] EXCEPT !.pc = "crashed", !.cause = "BlobUnavailable",
                                       !.why = "ext"])
          \/ /\ d \notin blobs
             /\ SetWk(w, [wk[w] EXCEPT !.pc = "crashed", !.cause = "BlobUnavailable",
                                       !.why = "deleted"])
       /\ UNCHANGED <<rows, kind, blobs, vec, ocrDir, jobs, clients, lastPush, recon,
                      ticks, quiet, relayDone, finPages>>)

\* the write stream finishes, or errors (the promise rejects)
FrDownloadFinish(w) ==
  /\ wk[w].pc = "fr_dlfinish"
  /\ LET d == wk[w].doc IN
     /\ tmpPdf' = [tmpPdf EXCEPT ![d] = FinishWrite(@, w)]
     /\ \/ SetWk(w, [wk[w] EXCEPT !.pc = "fr_extract"])
        \/ "scratch" \in faults /\ Fail(w, "ScratchWriteFailed", "ext")
  /\ UNCHANGED <<rows, kind, blobs, vec, ocrDir, jobs, events, clients, lastPush,
                 recon, ticks, env, relayDone, finPages>>

\* progress "pdf-parse"; extractWithPdfLoader(tmpPdf); the OCR decision
FrExtract(w) ==
  /\ wk[w].pc = "fr_extract"
  /\ LET d == wk[w].doc IN
     TryProgress(w, 30, "pdf-parse",
       /\ \E o \in ReadOutcomes(tmpPdf[d]) \cup (IF "extract" \in faults THEN {"corrupt"} ELSE {}) :
            CASE o = "ok" ->
                   SetWk(w, [wk[w] EXCEPT
                     !.pc = IF ShouldOCR(PdfPages(kind[d])) THEN "fr_ocr" ELSE "fr_index"])
              [] o = "bad" -> Fail(w, "ExtractionFailed", "race")
              [] OTHER -> Fail(w, "ExtractionFailed", "ext")
       /\ UNCHANGED <<rows, kind, blobs, vec, tmpPdf, ocrDir, jobs, clients, lastPush,
                      recon, ticks, quiet, relayDone, finPages>>)

\* progress "ocr"; let best = {...}; the loop starts at the first DPI candidate
FrOcrStart(w) ==
  /\ wk[w].pc = "fr_ocr"
  /\ TryProgress(w, 45, "ocr",
       /\ SetWk(w, [wk[w] EXCEPT !.pc = "fr_raster", !.dpi = 1, !.best = BestInit])
       /\ UNCHANGED <<rows, kind, blobs, vec, tmpPdf, ocrDir, jobs, clients, lastPush,
                      recon, ticks, quiet, relayDone, finPages>>)

\* a loop that announces the ocr stage again before every further candidate
NextDpiAnnounced(w, best) ==
  SetWk(w, [wk[w] EXCEPT !.best = best, !.dpi = @ + 1,
            !.pc = IF wk[w].dpi + 1 > Len(EFFECTIVE_DPIS) THEN "fr_index" ELSE "fr_ocr"])

\* the end of one round of for (const dpi of EFFECTIVE_DPIS)
NextDpi(w, best) ==
  SetWk(w, [wk[w] EXCEPT !.best = best, !.dpi = @ + 1,
            !.pc = IF wk[w].dpi + 1 > Len(EFFECTIVE_DPIS) THEN "fr_index" ELSE "fr_raster"])

\* rasterizePdfToPngs(tmpPdf, ocrRoot/dpi_<n>, dpi): pdftoppm reads the scratch
\* PDF; 0 PNGs -> continue with the next candidate
FrRaster(w) ==
  /\ wk[w].pc = "fr_raster"
  /\ LET d == wk[w].doc
         i == wk[w].dpi
     IN \E o \in ReadOutcomes(tmpPdf[d]) \cup (IF "ocr" \in faults THEN {"exec"} ELSE {}) :
          CASE o = "ok" ->
                 IF PdfOcrLens(kind[d], i) = <<>>
                 THEN NextDpi(w, wk[w].best) /\ UNCHANGED ocrDir
                 ELSE /\ ocrDir' = [ocrDir EXCEPT ![d] = @ \cup {i}]
                      /\ SetWk(w, [wk[w] EXCEPT !.pc = "fr_recog"])
            [] o = "bad" -> Fail(w, "RasterizeFailed", "race") /\ UNCHANGED ocrDir
            [] OTHER -> Fail(w, "RasterizeFailed", "ext") /\ UNCHANGED ocrDir
  /\ UNCHANGED <<rows, kind, blobs, vec, tmpPdf, jobs, events, clients, lastPush,
                 recon, ticks, env, relayDone, finPages>>

\* ocrImagesToDocuments(pngs, ...): Tesseract reads the PNGs of this candidate;
\* then the better-pass test
FrRecog(w) ==
  /\ wk[w].pc = "fr_recog"
  /\ LET d == wk[w].doc
         i == wk[w].dpi
         pass == OcrImagesToDocuments(PdfOcrLens(kind[d], i), PdfOcrConfs(kind[d], i))
     IN \/ /\ i \in ocrDir[d]
           /\ NextDpi(w, BestStep(wk[w].best, pass, i))
        \/ /\ i \in ocrDir[d]
           /\ "ocr" \in faults
           /\ Fail(w, "OcrFailed", "ext")
        \/ /\ i \notin ocrDir[d]
           /\ Fail(w, "OcrFailed", "race")
  /\ UNCHANGED <<rows, kind, blobs, vec, tmpPdf, ocrDir, jobs, events, clients,
                 lastPush, recon, ticks, env, relayDone, finPages>>

\* splitDocuments copies the metadata of a page to each of its chunks: the
\* metadata of the chunks made from docs, in order
ChunkMetas(docs) ==
  LET withText == SelectSeq(docs, LAMBDA x : ~x.blank)
  IN [i \in 1..Len(withText) |-> [ocr |-> withText[i].ocr]]

\* the pages handed to chunkAndIndex
BaseDocs(w) == ChooseBase(NativeDocs(PdfPages(kind[wk[w].doc])), wk[w].best)

\* a collection other than the document's own, for every document
IndexCollectionShared(w) == 0

\* chunkAndIndex(..., rec.collection): the collection named on the row
IndexCollection(w) == CollectionOf(wk[w].doc)

\* QdrantVectorStore.fromDocuments(chunks, ..., { collectionName }): creates the
\* collection when it is missing and adds one point per chunk
AddPoints(c, n) == vec' = [vec EXCEPT ![c] = (IF @ < 0 THEN 0 ELSE @) + n]

\* what embedLocally(texts) returns for n texts: the number of vectors, -1 for a
\* value that is not an array
EmbedReplies(n) == {n} \cup (IF "index" \in faults THEN {-1, n - 1, n + 1} ELSE {})

\* a test that only asks for an array
EmbeddingsMatchArrayOnly(e, n) == e >= 0

\* Array.isArray(vectors) && vectors.length === chunks.length
EmbeddingsMatch(e, n) == e >= 0 /\ e = n

\* fromDocuments writes one point per chunk that has a vector
Indexed(e, n) == IF e < n THEN e ELSE n

\* progress "chunking"; chunkAndIndex(name, docId, ownerId, baseDocs, rec.collection)
FrIndex(w) ==
  /\ wk[w].pc = "fr_index"
  /\ LET d == wk[w].doc
         n == ChunkCount(BaseDocs(w))
     IN TryProgress(w, 70, "chunking",
          /\ \/ /\ n = 0
                /\ Fail(w, "No chunks created from document text", "content")
                /\ UNCHANGED vec
             \/ /\ n > 0
                /\ "index" \in faults
                /\ \E c \in {"Embed failed", "IndexWriteFailed"} : Fail(w, c, "ext")
                /\ UNCHANGED vec
             \/ /\ n > 0
                /\ \E e \in EmbedReplies(n) :
                     IF EmbeddingsMatch(e, n)
                     THEN /\ (IF vec[IndexCollection(w)] < 0 THEN 0
                              ELSE vec[IndexCollection(w)]) + n <= MaxPoints
                          /\ AddPoints(IndexCollection(w), Indexed(e, n))
                          /\ SetWk(w, [wk[w] EXCEPT !.pc = "fr_finalize", !.emb = e])
                     ELSE /\ SetWk(w, [wk[w] EXCEPT !.pc = "fr_catch", !.emb = e,
                                         !.cause = "Embedding count mismatch",
                                         !.why = "ext"])
                          /\ UNCHANGED vec
          /\ UNCHANGED <<rows, kind, blobs, tmpPdf, ocrDir, jobs, clients, lastPush,
                         recon, ticks, quiet, relayDone, finPages>>)

\* an update that inserts the document when no row has the id
MatchesIdUpsert(d) == TRUE

\* col.updateOne({ _id: docId }, { $set ... }) without upsert: it changes a row
\* only when one with this id exists
MatchesId(d) == rows[d] # NoRow

\* progress "indexing"; updateOne({ _id }, { status: "ready", pages: baseDocs.length })
FrFinalize(w) ==
  /\ wk[w].pc = "fr_finalize"
  /\ LET d == wk[w].doc IN
     TryProgress(w, 90, "indexing",
       /\ \/ /\ rows' = IF ~MatchesId(d) THEN rows
                        ELSE [rows EXCEPT ![d].status = "ready", ![d].pages = Len(BaseDocs(w))]
             /\ finPages' = IF ~MatchesId(d) THEN finPages
                            ELSE [finPages EXCEPT ![d] = Append(@, Len(BaseDocs(w)))]
             /\ SetWk(w, [wk[w] EXCEPT !.pc = "fr_return"])
          \/ /\ "store" \in faults
             /\ Fail(w, "StoreWriteFailed", "ext")
             /\ UNCHANGED <<rows, finPages>>
       /\ UNCHANGED <<kind, blobs, vec, tmpPdf, ocrDir, jobs, clients, lastPush, recon,
                      ticks, quiet, relayDone>>)

\* return { ownerId, docId, ok, chunks, pages, usedOCR }; finally; job completed
FrReturn(w) ==
  /\ wk[w].pc = "fr_return"
  /\ Cleanup(wk[w].doc)
  /\ JobCompleted(w, CompletedEv(wk[w].own, wk[w].doc, Len(BaseDocs(w))))
  /\ SetWk(w, IdleWorker)
  /\ Forget(w)
  /\ UNCHANGED <<rows, kind, blobs, vec, clients, lastPush, recon, ticks, quiet, relayDone, finPages>>

\* catch (err): updateOne({ _id }, { status: "error", error: String(err.message) })
FrCatch(w) ==
  /\ wk[w].pc = "fr_catch"
  /\ LET d == wk[w].doc IN
     \/ /\ rows' = IF ~MatchesId(d) THEN rows
                   ELSE [rows EXCEPT ![d].status = "error", ![d].error = wk[w].cause]
        /\ SetWk(w, [wk[w] EXCEPT !.pc = "fr_catch_emit", !.errW = rows[d] # NoRow])
     \/ /\ "store" \in faults
        /\ SetWk(w, [wk[w] EXCEPT !.pc = "fr_throw", !.thrown = "StoreWriteFailed in catch"])
        /\ UNCHANGED rows
  /\ UNCHANGED <<kind, blobs, vec, tmpPdf, ocrDir, jobs, events, clients, lastPush,
                 recon, ticks, env, relayDone, finPages>>

\* try { updateProgress({ status: "error", pct: 100, stage: "failed" }) } catch {}; throw err
FrCatchEmit(w) ==
  /\ wk[w].pc = "fr_catch_emit"
  /\ \/ /\ Emit(ProgressEv(wk[w].own, wk[w].doc, "error", 100, "failed"))
        /\ Published(w, 100, "failed")
        /\ SetWk(w, [wk[w] EXCEPT !.pc = "fr_throw", !.thrown = wk[w].cause, !.errP = TRUE])
     \/ /\ "progress" \in faults
        /\ UNCHANGED <<events, prog>>
        /\ SetWk(w, [wk[w] EXCEPT !.pc = "fr_throw", !.thrown = wk[w].cause])
  /\ UNCHANGED <<rows, kind, blobs, vec, tmpPdf, ocrDir, jobs, clients, lastPush,
                 recon, ticks, quiet, relayDone, finPages>>

\* the rejection leaves the handler: finally (only for a throw inside the try
\* block), then the queue fails or retries the job
FrThrow(w) ==
  /\ wk[w].pc = "fr_throw"
  /\ IF wk[w].cause # "" THEN Cleanup(wk[w].doc) ELSE UNCHANGED <<tmpPdf, ocrDir>>
  /\ JobFailed(w, wk[w].thrown)
  /\ SetWk(w, IdleWorker)
  /\ Forget(w)
  /\ UNCHANGED <<rows, kind, blobs, vec, clients, lastPush, recon, ticks, quiet, relayDone, finPages>>

\* the worker process is started again after an uncaught exception
Restart(w) ==
  /\ wk[w].pc = "crashed"
  /\ SetWk(w, IdleWorker)
  /\ Forget(w)
  /\ UNCHANGED <<rows, kind, blobs, vec, tmpPdf, ocrDir, jobs, events, clients,
                 lastPush, recon, ticks, quiet, relayDone, finPages>>


(***************************************************************************)
(* handleHardDelete.                                                       *)
(***************************************************************************)
HdProgress(w, status, pct, stage) ==
  EmitSwallow(ProgressEv(wk[w].own, wk[w].doc, status, pct, stage))

\* the row looked up by _id alone
HdOwnedById(w) == rows[wk[w].doc] # NoRow

\* findOne({ _id, ownerId }) finds a row
HdOwned(w) == rows[wk[w].doc] # NoRow /\ rows[wk[w].doc].ownerId = wk[w].own

\* findOne({ _id, ownerId }); absent or not owned: return { skipped: true }
HdCheck(w) ==
  /\ wk[w].pc = "hd_check"
  /\ \/ /\ ~HdOwned(w)
        /\ JobCompleted(w, HdReturnValue(w))
        /\ SetWk(w, IdleWorker)
     \/ /\ HdOwned(w)
        /\ HdProgress(w, "deleting", 10, "start")
        /\ SetWk(w, [wk[w] EXCEPT !.pc = "hd_vec"])
        /\ UNCHANGED jobs
     \/ /\ "store" \in faults
        /\ SetWk(w, [wk[w] EXCEPT !.pc = "hd_throw", !.thrown = "StoreReadFailed"])
        /\ UNCHANGED <<jobs, events>>
  /\ UNCHANGED <<rows, kind, blobs, vec, tmpPdf, ocrDir, clients, lastPush, recon,
                 ticks, env, relayDone, finPages>>

\* a sub-step whose error is not caught leaves the handler
HdSubStepThrown(w, next) ==
  SetWk(w, [wk[w] EXCEPT !.pc = "hd_throw", !.thrown = "SubStepFailed"])

\* catch (e) { console.warn(...) }: the handler goes on with the next sub-step
HdSubStepCaught(w, next) == SetWk(w, [wk[w] EXCEPT !.pc = next])

\* try { qc.deleteCollection(collection); progress "vectors" } catch { log }
HdVec(w) ==
  /\ wk[w].pc = "hd_vec"
  /\ \/ /\ vec' = [vec EXCEPT ![CollectionOf(wk[w].doc)] = -1]
        /\ HdProgress(w, "deleting", 50, "vectors")
        /\ SetWk(w, [wk[w] EXCEPT !.pc = "hd_blob"])
     \/ /\ "qdrant" \in faults
        /\ UNCHANGED <<vec, events>>
        /\ HdSubStepCaught(w, "hd_blob")
  /\ UNCHANGED <<rows, kind, blobs, tmpPdf, ocrDir, jobs, clients, lastPush, recon,
                 ticks, env, relayDone, finPages>>

\* try { gfs.delete(gridId); progress "blob" } catch { log }: a missing blob
\* makes gfs.delete throw
HdBlob(w) ==
  /\ wk[w].pc = "hd_blob"
  /\ \/ /\ wk[w].doc \in blobs
        /\ blobs' = blobs \ {wk[w].doc}
        /\ HdProgress(w, "deleting", 75, "blob")
        /\ SetWk(w, [wk[w] EXCEPT !.pc = "hd_row"])
     \/ /\ wk[w].doc \notin blobs \/ "gridfs" \in faults
        /\ UNCHANGED <<blobs, events>>
        /\ HdSubStepCaught(w, "hd_row")
  /\ UNCHANGED <<rows, kind, vec, tmpPdf, ocrDir, jobs, clients, lastPush, recon,
                 ticks, env, relayDone, finPages>>

\* col.deleteOne({ _id, ownerId }); progress "done"
HdRow(w) ==
  /\ wk[w].pc = "hd_row"
  /\ \/ /\ rows' = IF HdOwned(w) THEN [rows EXCEPT ![wk[w].doc] = NoRow] ELSE rows
        /\ HdProgress(w, "deleted", 100, "done")
        /\ SetWk(w, [wk[w] EXCEPT !.pc = "hd_return"])
     \/ /\ "store" \in faults
        /\ SetWk(w, [wk[w] EXCEPT !.pc = "hd_throw", !.thrown = "StoreWriteFailed"])
        /\ UNCHANGED <<rows, events>>
  /\ UNCHANGED <<kind, blobs, vec, tmpPdf, ocrDir, jobs, clients, lastPush, recon,
                 ticks, env, relayDone, finPages>>

\* return { deleted: true }: no ownerId, no docId in the return value
HdReturn(w) ==
  /\ wk[w].pc = "hd_return"
  /\ JobCompleted(w, HdReturnValue(w))
  /\ SetWk(w, IdleWorker)
  /\ UNCHANGED <<rows, kind, blobs, vec, tmpPdf, ocrDir, clients, lastPush, recon,
                 ticks, env, relayDone, finPages>>

HdThrow(w) ==
  /\ wk[w].pc = "hd_throw"
  /\ JobFailed(w, wk[w].thrown)
  /\ SetWk(w, IdleWorker)
  /\ UNCHANGED <<rows, kind, blobs, vec, tmpPdf, ocrDir, clients, lastPush, recon,
                 ticks, env, relayDone, finPages>>

(***************************************************************************)
(* Status relay: the QueueEvents handlers.  Events are taken from the      *)
(* stream in order; each handler persists (best effort) and pushes.        *)
(***************************************************************************)
MatchesById(d, u) == d \in DocIds /\ rows[d] # NoRow

Matches(d, u) == d \in DocIds /\ rows[d] # NoRow /\ rows[d].ownerId = u

\* queueEvents.on("progress"): $set status: status || "processing"
RelayProgress ==
  /\ events # <<>>
  /\ Head(events).type = "progress"
  /\ LET ev == Head(events) IN
     /\ events' = Tail(events)
     /\ IF ev.owner = "" \/ ev.doc = 0
        THEN UNCHANGED <<rows, lastPush>>
        ELSE \/ /\ rows' = IF Matches(ev.doc, ev.owner)
                           THEN [rows EXCEPT ![ev.doc].status =
                                   IF ev.status = "" THEN "processing" ELSE ev.status]
                           ELSE rows
                /\ PushToUser(ev.owner, "progress", ev.doc, ev.status, NullPages)
             \/ /\ "store" \in faults
                /\ UNCHANGED rows
                /\ PushAfterCaught(ev.owner, "progress", ev.doc, ev.status, NullPages)
  /\ UNCHANGED <<kind, blobs, vec, tmpPdf, ocrDir, jobs, wk, clients, recon, ticks,
                 env, relayDone, finPages>>

\* a completed handler that forwards without persisting
CompletedSetNothing(row, pages) == row

\* $set: { status: "ready", updatedAt, pages: pages ?? undefined }
CompletedSet(row, pages) == [row EXCEPT !.status = "ready", !.pages = pages]

\* queueEvents.on("completed"): updateOne({ _id, ownerId }, $set ...) in a
\* try/catch, then pushToUser({ type: "completed", docId, status: "ready", pages })
RelayCompleted ==
  /\ events # <<>>
  /\ Head(events).type = "completed"
  /\ LET ev == Head(events) IN
     /\ events' = Tail(events)
     /\ IF ev.owner = "" \/ ev.doc = 0
        THEN UNCHANGED <<rows, lastPush, relayDone>>
        ELSE \/ /\ rows' = IF Matches(ev.doc, ev.owner)
                           THEN [rows EXCEPT ![ev.doc] = CompletedSet(@, ev.pages)]
                           ELSE rows
                /\ relayDone' = IF Matches(ev.doc, ev.owner)
                                THEN relayDone \cup {ev.doc} ELSE relayDone
                /\ PushToUser(ev.owner, "completed", ev.doc, "ready", ev.pages)
             \/ /\ "store" \in faults
                /\ UNCHANGED <<rows, relayDone>>
                /\ PushAfterCaught(ev.owner, "completed", ev.doc, "ready", ev.pages)
  /\ UNCHANGED <<kind, blobs, vec, tmpPdf, ocrDir, jobs, wk, clients, recon, ticks,
                 env, finPages>>

\* queueEvents.on("failed"): $set status: "error", error: failedReason
RelayFailed ==
  /\ events # <<>>
  /\ Head(events).type = "failed"
  /\ LET ev == Head(events) IN
     /\ events' = Tail(events)
     /\ IF ev.owner = "" \/ ev.doc = 0
        THEN UNCHANGED <<rows, lastPush, relayDone>>
        ELSE \/ /\ rows' = IF Matches(ev.doc, ev.owner)
                           THEN [rows EXCEPT ![ev.doc].status = "error",
                                             ![ev.doc].error = ev.stage]
                           ELSE rows
                /\ relayDone' = IF Matches(ev.doc, ev.owner)
                                THEN relayDone \cup {ev.doc} ELSE relayDone
                /\ PushToUser(ev.owner, "failed", ev.doc, "error", NullPages)
             \/ /\ "store" \in faults
                /\ UNCHANGED <<rows, relayDone>>
                /\ PushAfterCaught(ev.owner, "failed", ev.doc, "error", NullPages)
  /\ UNCHANGED <<kind, blobs, vec, tmpPdf, ocrDir, jobs, wk, clients, recon, ticks,
                 env, finPages>>


(***************************************************************************)
(* Documents routes: delete (soft / hard), list with auto-reconcile,       *)
(* manual reconcile.                                                       *)
(***************************************************************************)
\* DELETE /documents/:id: $set { deletedAt, status: "deleted" }
SoftDelete(d, u) ==
  /\ Matches(d, u)
  /\ rows' = [rows EXCEPT ![d].status = "deleted", ![d].deletedAt = TRUE]
  /\ UNCHANGED <<kind, blobs, vec, tmpPdf, ocrDir, jobs, wk, events, clients,
                 lastPush, recon, ticks, env, relayDone, finPages>>

HardDeleteJobs == {j \in 1..Len(jobs) : jobs[j].name = "hard-delete"}

\* DELETE /documents/:id?hard=true: $set { status: "deleting" }; then
\* queue.add("hard-delete"), whose rejection ends the request with the row
\* already written
HardDelete(d, u) ==
  /\ Matches(d, u)
  /\ Cardinality(HardDeleteJobs) < MaxHardDeletes
  /\ rows' = [rows EXCEPT ![d].status = "deleting"]
  /\ \/ jobs' = Append(jobs, NewJob("hard-delete", d, u, HARD_DELETE_ATTEMPTS))
     \/ "queue" \in faults /\ jobs' = jobs
  /\ UNCHANGED <<kind, blobs, vec, tmpPdf, ocrDir, wk, events, clients, lastPush,
                 recon, ticks, env, relayDone, finPages>>

\* the filter { ownerId: userId, deletedAt: { $exists: false } }
BulkFilter(u) == {d \in DocIds : Matches(d, u) /\ ~rows[d].deletedAt}

\* DELETE /documents?hard=true, first await: docs = find(filter).toArray();
\* an empty list ends the request
BulkFind(u) ==
  /\ Cardinality(bulk) < MaxBulk
  /\ Cardinality(HardDeleteJobs) < MaxHardDeletes
  /\ BulkFilter(u) # {}
  /\ bulk' = bulk \cup {[user |-> u, docs |-> BulkFilter(u), ph |-> "found"]}
  /\ UNCHANGED <<rows, kind, blobs, vec, tmpPdf, ocrDir, jobs, wk, events, clients,
                 lastPush, recon, ticks, faults, sel, fixed, chk, prog, relayDone,
                 finPages, keys, auth>>

\* second await: updateMany(filter, { $set: { status: "deleting" } }); the
\* filter is evaluated again, on the rows as they are now
BulkMark(b) ==
  /\ b \in bulk
  /\ b.ph = "found"
  /\ \/ /\ rows' = [d \in DocIds |->
                    IF d \in BulkFilter(b.user)
                      THEN [rows[d] EXCEPT !.status = "deleting"] ELSE rows[d]]
        /\ bulk' = (bulk \ {b}) \cup {[b EXCEPT !.ph = "marked"]}
     \/ "store" \in faults /\ rows' = rows /\ bulk' = bulk \ {b}
  /\ UNCHANGED <<kind, blobs, vec, tmpPdf, ocrDir, jobs, wk, events, clients,
                 lastPush, recon, ticks, faults, sel, fixed, chk, prog, relayDone,
                 finPages, keys, auth>>

\* third await: Promise.allSettled(docs.map(doc => queue.add("hard-delete", ...))):
\* one job per document of the list read by find; a rejected add is dropped
BulkEnqueue(b) ==
  /\ b \in bulk
  /\ b.ph = "marked"
  /\ \E added \in SUBSET b.docs :
       /\ "queue" \in faults \/ added = b.docs
       /\ jobs' = jobs \o SelectSeq(
            [d \in 1..MaxDocs |-> NewJob("hard-delete", d, b.user, HARD_DELETE_ATTEMPTS)],
            LAMBDA j : j.doc \in added)
  /\ bulk' = bulk \ {b}
  /\ UNCHANGED <<rows, kind, blobs, vec, tmpPdf, ocrDir, wk, events, clients,
                 lastPush, recon, ticks, faults, sel, fixed, chk, prog, relayDone,
                 finPages, keys, auth>>

\* the stale filter of GET /documents
IsStale(row) ==
  /\ row.status \in {"processing", "queued"}
  /\ Now - row.createdAt > STALE_MS

ReconTask(u, d, manual) ==
  [user |-> u, doc |-> d, ph |-> "check", manual |-> manual,
   readStatus |-> rows[d].status, readStale |-> IsStale(rows[d])]

\* GET /documents: first pass of the list, then one check per stale document
ListDocuments(u, includeDeleted) ==
  LET docs == {d \in DocIds : Matches(d, u) /\ (includeDeleted \/ ~rows[d].deletedAt)}
      stale == {d \in docs : IsStale(rows[d])}
      tasks == {ReconTask(u, d, FALSE) : d \in stale}
  IN /\ stale # {}
     /\ Cardinality(recon \cup tasks) <= MaxRecon
     /\ recon' = recon \cup tasks
     /\ UNCHANGED <<rows, kind, blobs, vec, tmpPdf, ocrDir, jobs, wk, events, clients,
                    lastPush, ticks, env, relayDone, finPages>>

\* POST /documents/:id/reconcile: findOne({ _id, ownerId }), 404 when absent
ManualReconcile(d, u) ==
  /\ Matches(d, u)
  /\ Cardinality(recon \cup {ReconTask(u, d, TRUE)}) <= MaxRecon
  /\ recon' = recon \cup {ReconTask(u, d, TRUE)}
  /\ UNCHANGED <<rows, kind, blobs, vec, tmpPdf, ocrDir, jobs, wk, events, clients,
                 lastPush, ticks, env, relayDone, finPages>>

\* a check that answers true for every collection it can reach
CollectionHasAnyPointsUnchecked(c, readable) == readable

\* collectionHasAnyPoints(collection): points_count > 0; false when the
\* collection is missing or Qdrant cannot be read
CollectionHasAnyPoints(c, readable) == readable /\ vec[c] > 0

\* a repair that records failure instead of success
RepairedStatusError == "error"

\* $set: { status: "ready", updatedAt } of both reconcile routes
RepairedStatus == "ready"

ReconCheck(t) ==
  /\ t \in recon
  /\ t.ph = "check"
  /\ \E readable \in (IF "qdrant" \in faults THEN BOOLEAN ELSE {TRUE}) :
       recon' = IF CollectionHasAnyPoints(CollectionOf(t.doc), readable)
                THEN (recon \ {t}) \cup {[t EXCEPT !.ph = "write"]}
                ELSE recon \ {t}
  /\ UNCHANGED <<rows, kind, blobs, vec, tmpPdf, ocrDir, jobs, wk, events, clients,
                 lastPush, ticks, env, relayDone, finPages>>

\* if (ok) { updateOne({ _id, ownerId }, { status: "ready" }); pushToUser(completed) }
ReconWrite(t) ==
  /\ t \in recon
  /\ t.ph = "write"
  /\ recon' = recon \ {t}
  /\ \/ /\ rows' = IF Matches(t.doc, t.user)
                   THEN [rows EXCEPT ![t.doc].status = RepairedStatus]
                   ELSE rows
        /\ PushToUser(t.user, "completed", t.doc, RepairedStatus, NullPages)
        /\ fixed' = IF Matches(t.doc, t.user)
                    THEN fixed \cup {[doc |-> t.doc, manual |-> t.manual]}
                    ELSE fixed
     \/ "store" \in faults /\ UNCHANGED <<rows, lastPush, fixed>>
  /\ UNCHANGED <<kind, blobs, vec, tmpPdf, ocrDir, jobs, wk, events, clients, ticks,
                 faults, sel, chk, relayDone, finPages, prog, bulk,
                 keys, auth>>

Tick ==
  /\ ticks < MaxTicks
  /\ ticks' = ticks + 1
  /\ UNCHANGED <<rows, kind, blobs, vec, tmpPdf, ocrDir, jobs, wk, events, clients,
                 lastPush, recon, env, relayDone, finPages>>

(***************************************************************************)
(* The system.                                                             *)
(***************************************************************************)
FileReadyStep(w) ==
  \/ FrLoad(w) \/ FrDownload(w) \/ FrDownloadFinish(w) \/ FrExtract(w)
  \/ FrOcrStart(w) \/ FrRaster(w) \/ FrRecog(w) \/ FrIndex(w) \/ FrFinalize(w)
  \/ FrReturn(w) \/ FrCatch(w) \/ FrCatchEmit(w) \/ FrThrow(w)

HardDeleteStep(w) ==
  \/ HdCheck(w) \/ HdVec(w) \/ HdBlob(w) \/ HdRow(w) \/ HdReturn(w) \/ HdThrow(w)

Relay == RelayProgress \/ RelayCompleted \/ RelayFailed

\* Redelivery: one document, two workers, a stalled job handed out again while
\* its first attempt still runs; no external failure is injected.
NextIngest ==
  \/ \E d \in FirstDoc, k \in {"native", "scanned"} : Upload(d, "u1", k)
  \/ \E w \in Workers : Take(w) \/ FileReadyStep(w)
  \/ \E j \in 1..Len(jobs) : Stall(j)
  \/ Relay

SpecIngest == InitWith({}) /\ [][NextIngest]_vars


(***************************************************************************)
(* The OCR selection of handleFileReady on its own: the native pages and   *)
(* the results of the DPI passes are drawn from bounded sets, the loop and *)
(* the keep-native test are applied to them.                               *)
(***************************************************************************)
SelNatives ==
  { << [len |-> 0, blank |-> TRUE] >>,
    << [len |-> 100, blank |-> FALSE] >>,
    << [len |-> 900, blank |-> FALSE] >> }

\* what one DPI candidate yields: page text lengths and page confidences
\* (-1 = Tesseract reported no confidence); no pages = pdftoppm produced 0 PNGs
SelPasses ==
  {[lens |-> <<>>, confs |-> <<>>]}
    \cup {[lens |-> <<l>>, confs |-> <<c>>] : l \in {0, 50, 100, 200}, c \in {-1, 40, 80}}

SelPassLists ==
  UNION {[1..n -> SelPasses] : n \in 0..MaxPasses}

InitOcr ==
  /\ InitPipeline({})
  /\ chk = NoChk
  /\ \E n \in SelNatives, ps \in SelPassLists :
       sel = [NoSel EXCEPT !.ph = "decide", !.native = n, !.passes = ps]

\* if (shouldOCR) { let best = ...; for (const dpi of EFFECTIVE_DPIS) ... }
OcrDecide ==
  /\ sel.ph = "decide"
  /\ sel' = IF ShouldOCR(sel.native)
            THEN [sel EXCEPT !.ph = "loop", !.i = 1, !.best = BestInit]
            ELSE [sel EXCEPT !.ph = "done", !.out = NativeDocs(sel.native)]
  /\ UNCHANGED <<rows, kind, blobs, vec, tmpPdf, ocrDir, jobs, wk, events, clients,
                 lastPush, recon, ticks, faults, fixed, chk, relayDone, finPages, prog, bulk,
                 keys, auth>>

\* one iteration of the loop: 0 PNGs -> continue, else the better-pass test
OcrPass ==
  /\ sel.ph = "loop"
  /\ sel.i <= Len(sel.passes)
  /\ LET p == sel.passes[sel.i]
     IN sel' = [sel EXCEPT !.i = @ + 1,
                           !.best = IF p.lens = <<>> THEN sel.best
                                    ELSE BestStep(sel.best,
                                                  OcrImagesToDocuments(p.lens, p.confs),
                                                  sel.i)]
  /\ UNCHANGED <<rows, kind, blobs, vec, tmpPdf, ocrDir, jobs, wk, events, clients,
                 lastPush, recon, ticks, faults, fixed, chk, relayDone, finPages, prog, bulk,
                 keys, auth>>

\* after the loop: the keep-native test
OcrChoose ==
  /\ sel.ph = "loop"
  /\ sel.i > Len(sel.passes)
  /\ sel' = [sel EXCEPT !.ph = "done",
                        !.out = ChooseBase(NativeDocs(sel.native), sel.best),
                        !.usedOcr = UseOcr(sel.best)]
  /\ UNCHANGED <<rows, kind, blobs, vec, tmpPdf, ocrDir, jobs, wk, events, clients,
                 lastPush, recon, ticks, faults, fixed, chk, relayDone, finPages, prog, bulk,
                 keys, auth>>

NextOcr == OcrDecide \/ OcrPass \/ OcrChoose

SpecOcr == InitOcr /\ [][NextOcr]_vars

\* C4: when the OCR fallback ran, the OCR pages of the best pass are the
\* indexed source if and only if some pass has textLen strictly greater than
\* the native length N, and the indexed source's text length is at least N.
C4_OcrOnlyIfBeatsNative ==
  (sel.ph = "done" /\ ShouldOCR(sel.native))
    => LET N == TotalTextLen(sel.native)
           beats == \E i \in 1..Len(sel.passes) :
                      /\ sel.passes[i].lens # <<>>
                      /\ SumLen(OcrImagesToDocuments(sel.passes[i].lens,
                                                     sel.passes[i].confs).docs) > N
       IN /\ sel.usedOcr <=> beats
          /\ SumLen(sel.out) >= N

(***************************************************************************)
(* Reconciliation and soft delete around one ingestion: one worker, the    *)
(* list and manual-reconcile routes, the clock; extraction may fail, and   *)
(* in half of the runs Qdrant may be unreadable from the server.           *)
(***************************************************************************)
InitRecon == \E fs \in {{"extract"}, {"extract", "qdrant"}} : InitWith(fs)

NextRecon ==
  \/ \E d \in FirstDoc, k \in {"native", "scanned"} : Upload(d, "u1", k)
  \/ Take(1) \/ FileReadyStep(1)
  \/ Relay
  \/ Tick
  \/ \E incl \in BOOLEAN : ListDocuments("u1", incl)
  \/ \E d \in FirstDoc : ManualReconcile(d, "u1") \/ SoftDelete(d, "u1")
  \/ \E t \in recon : ReconCheck(t) \/ ReconWrite(t)

SpecRecon == InitRecon /\ [][NextRecon]_vars

Promoted(t) == [t EXCEPT !.ph = "write"]

\* C5: for a document the list read as processing or queued and older than
\* 20 s: with at least one point in its collection (and Qdrant readable) the
\* pass goes on to write, and its write sets the status to ready and pushes a
\* completed event to the owner; with zero points or an unreadable collection
\* the pass ends with the row and the pushes unchanged.
C5_AutoReconcile ==
  [][\A t \in recon : (~t.manual /\ t \notin recon') =>
       LET c == CollectionOf(t.doc) IN
       /\ (t.ph = "check" /\ vec[c] > 0 /\ "qdrant" \notin faults)
            => Promoted(t) \in recon'
       /\ (t.ph = "check" /\ Promoted(t) \notin recon')
            => rows' = rows /\ lastPush' = lastPush
       /\ (t.ph = "check" /\ vec[c] <= 0)
            => Promoted(t) \notin recon' /\ rows' = rows /\ lastPush' = lastPush
       /\ (t.ph = "write" /\ rows[t.doc] # NoRow)
            => /\ rows'[t.doc].status = "ready"
               /\ lastPush'.n # lastPush.n
               /\ lastPush'.type = "completed"
               /\ lastPush'.owner = t.user
               /\ lastPush'.doc = t.doc
               /\ lastPush'.status = "ready"]_vars

\* the list repaired a stale document whose ingestion never finalized
C5_Witness ==
  \E d \in DocIds :
    /\ [doc |-> d, manual |-> FALSE] \in fixed
    /\ rows[d].status = "ready"
    /\ finPages[d] = <<>>
    /\ lastPush.type = "completed"

\* C6: every step of the reconciler that changes a document row changes only
\* its status, to ready, and is the write of a request whose check observed
\* at least one point in the document's collection; a request reaches its
\* write only through such an observation.
C6_ReconcilerWritesOnlyReady ==
  [][recon' # recon =>
       /\ \A d \in DocIds : rows'[d] # rows[d] =>
             /\ rows[d] # NoRow
             /\ rows'[d] = [rows[d] EXCEPT !.status = "ready"]
             /\ \E t \in recon \ recon' : t.doc = d /\ t.ph = "write"
       /\ \A t \in recon' \ recon : t.ph = "write" =>
             /\ [t EXCEPT !.ph = "check"] \in recon
             /\ vec[CollectionOf(t.doc)] > 0]_vars

\* a manual reconcile repaired a document
C6_Witness ==
  \E d \in DocIds :
    /\ [doc |-> d, manual |-> TRUE] \in fixed
    /\ rows[d].status = "ready"

\* C7: a reconciler write changes a row only when the request read the
\* document as queued or processing and older than the staleness window.
C7_OnlyStaleRepaired ==
  [][\A t \in recon :
       (t.ph = "write" /\ t \notin recon' /\ rows'[t.doc] # rows[t.doc])
         => t.readStatus \in {"queued", "processing"} /\ t.readStale]_vars

\* C9: once a document is soft-deleted (status deleted, deletedAt set), no
\* step changes its status.
C9_SoftDeletedStaysDeleted ==
  [][\A d \in DocIds :
       (rows[d] # NoRow /\ rows[d].status = "deleted" /\ rows[d].deletedAt)
         => rows'[d] # NoRow /\ rows'[d].status = "deleted"]_vars

(***************************************************************************)
(* One worker ingesting uploads of every kind while any external step may  *)
(* fail: progress emission, document store, GridFS read, scratch write,    *)
(* extraction, OCR, embedding and indexing.                                *)
(***************************************************************************)
PipelineFaults == {"progress", "store", "blob", "scratch", "extract", "ocr", "index"}

NextFault ==
  \/ \E d \in FirstDoc, k \in Kinds : Upload(d, "u1", k)
  \/ Take(1) \/ FileReadyStep(1) \/ Restart(1)
  \/ \E j \in 1..Len(jobs) : Stall(j)
  \/ Relay

SpecFault == InitWith(PipelineFaults) /\ [][NextFault]_vars

\* C10: an attempt in which a step after the row was loaded failed leaves the
\* handler only after it wrote status error with the stringified cause, then
\* emitted the progress event {status: error, pct: 100}, and it re-throws the
\* cause to the queue.
C10_FailureReported ==
  \A w \in Workers :
    (wk[w].cause # "" /\ wk[w].pc \in {"fr_throw", "crashed"})
      => wk[w].errW /\ wk[w].errP /\ wk[w].thrown = wk[w].cause

\* the failures the specification calls transient
TransientCauses == {"BlobUnavailable", "ExtractionFailed", "IndexWriteFailed"}

\* C11: the catch block writes status error for a transient failure only when
\* the queue will not run the job again: the attempt holds the job and it is the
\* job's last attempt.
C11_ErrorOnlyWhenExhausted ==
  [][\A w \in Workers :
       (/\ wk[w].pc = "fr_catch"
        /\ wk'[w].pc = "fr_catch_emit"
        /\ wk[w].cause \in TransientCauses
        /\ rows'[wk[w].doc] # NoRow
        /\ rows'[wk[w].doc].status = "error")
         => /\ HoldsLock(w)
            /\ jobs[wk[w].job].att + 1 >= jobs[wk[w].job].attempts]_vars

\* the failures the specification calls terminal
TerminalCauses ==
  {"Doc not found", "No chunks created from document text", "Embedding count mismatch"}

C13_ThreeAttempts ==
  \A j \in 1..Len(jobs) :
    (jobs[j].name = "file-ready" /\ jobs[j].st = "failed") => jobs[j].att = 3

\* C19: an index step whose embedding reply is not an array of one vector per
\* chunk ends in the catch block with the count-mismatch error and the vector
\* collections unchanged; an index step that writes points writes exactly one
\* per chunk.
C19_EmbeddingMismatch ==
  [][\A w \in Workers :
       (wk[w].pc = "fr_index" /\ wk'[w].emb # wk[w].emb) =>
         LET n == ChunkCount(BaseDocs(w))
             c == IndexCollection(w)
         IN /\ wk'[w].emb # n
                 => /\ wk'[w].pc = "fr_catch"
                    /\ wk'[w].cause = "Embedding count mismatch"
                    /\ vec' = vec
            /\ wk'[w].emb = n
                 => /\ wk'[w].pc = "fr_finalize"
                    /\ vec'[c] = (IF vec[c] < 0 THEN 0 ELSE vec[c]) + n]_vars

\* an attempt stopped by an array of the wrong length, nothing indexed
C19_Witness ==
  \E w \in Workers :
    /\ wk[w].pc = "fr_catch"
    /\ wk[w].cause = "Embedding count mismatch"
    /\ wk[w].emb >= 0
    /\ vec[IndexCollection(w)] < 0

(***************************************************************************)
(* The status relay with live subscribers: one worker ingests an upload,   *)
(* connections open and close, and the document store may fail.           *)
(***************************************************************************)
NextRelay ==
  \/ \E d \in FirstDoc, k \in {"native", "scanned"} : Upload(d, "u1", k)
  \/ Take(1) \/ FileReadyStep(1)
  \/ Relay
  \/ \E u \in Owners, c \in Conns : Connect(u, c) \/ Close(u, c)

SpecRelay == InitWith({"store"}) /\ [][NextRelay]_vars

\* C20: every relay step that consumes a progress event carrying ownerId and
\* docId pushes that progress event to the connections of the owner, whether
\* or not the row was written.
C20_ProgressAlwaysForwarded ==
  [][(/\ events # <<>>
      /\ Head(events).type = "progress"
      /\ events' = Tail(events)
      /\ Head(events).owner # ""
      /\ Head(events).doc # 0)
     => /\ lastPush'.n # lastPush.n
        /\ lastPush'.type = "progress"
        /\ lastPush'.owner = Head(events).owner
        /\ lastPush'.doc = Head(events).doc
        /\ lastPush'.status = Head(events).status
        /\ lastPush'.to = clients[Head(events).owner]]_vars

\* a progress event reached a subscriber although persisting it had failed
C20_Witness ==
  /\ lastPush.type = "progress"
  /\ ~lastPush.saved
  /\ lastPush.to # {}

(***************************************************************************)
(* Claims checked under SpecIngest.                                        *)
(***************************************************************************)
StatusOf(r) == r.status

\* the status changes the specification allows
AllowedChange(a, b) ==
  \/ a = b
  \/ a = "absent" /\ b = "queued"
  \/ a = "queued" /\ b = "processing"
  \/ a = "processing" /\ b \in {"ready", "error"}
  \/ a \notin {"absent", "deleting", "deleted"} /\ b \in {"deleted", "deleting"}
  \/ a = "deleting" /\ b = "absent"

\* C1: every change of a document's persisted status is queued->processing,
\* processing->ready, processing->error, a soft delete or a hard delete from a
\* state other than deleting/deleted, or deleting->row removed.
C1_OnlyAllowedTransitions ==
  [][\A d \in DocIds : AllowedChange(StatusOf(rows[d]), StatusOf(rows'[d]))]_vars

\* C2: every finalize of handleFileReady leaves the document ready with the
\* pages value every earlier finalize wrote, and the indexing step of a run
\* changes no collection but the one named on the document row.
C2_RerunIdempotent ==
  [][\A w \in Workers :
       LET d == wk[w].doc IN
       /\ (wk[w].pc = "fr_finalize" /\ wk'[w].pc = "fr_return" /\ rows'[d] # NoRow)
            => /\ rows'[d].status = "ready"
               /\ \A i \in 1..Len(finPages[d]) : finPages[d][i] = rows'[d].pages
       /\ (wk[w].pc = "fr_index" /\ wk'[w].pc = "fr_finalize")
            => /\ vec'[CollectionOf(d)] > 0
               /\ \A c \in Colls \ {CollectionOf(d)} : vec'[c] = vec[c]]_vars

\* two runs of the same job finalized one after the other, the document ready
C2_Witness ==
  \E d \in DocIds :
    /\ Len(finPages[d]) = 2
    /\ rows[d].status = "ready"
    /\ \A w \in Workers : wk[w].pc = "idle"

\* C3: when two workers process the same job and no external failure occurs,
\* no attempt fails (none enters the catch block).
C3_NoAttemptFails ==
  \A w \in Workers : wk[w].pc # "fr_catch"

\* C8: a progress event handled after the relay persisted completed or failed
\* for the same document does not change the document's status.
C8_LateProgressIgnored ==
  [][(/\ events # <<>>
      /\ Head(events).type = "progress"
      /\ events' = Tail(events)
      /\ Head(events).doc \in relayDone)
     => StatusOf(rows'[Head(events).doc]) = StatusOf(rows[Head(events).doc])]_vars

(***************************************************************************)
(* Hard delete of one of two documents, next to ingestion.  The handlers   *)
(* read ownerId and docId from job.data, so the queue may hold a job whose *)
(* declared owner is not the owner of the row it names.                    *)
(***************************************************************************)
MaxJobs == 3

\* const { ownerId, docId } = job.data: a job naming document d for a user u who
\* does not own it
ForeignJob(name, d, u) ==
  /\ rows[d] # NoRow
  /\ rows[d].ownerId # u
  /\ Len(jobs) < MaxJobs
  /\ jobs' = Append(jobs, NewJob(name, d, u,
               IF name = "file-ready" THEN FILE_READY_ATTEMPTS
                                      ELSE HARD_DELETE_ATTEMPTS))
  /\ UNCHANGED <<rows, kind, blobs, vec, tmpPdf, ocrDir, wk, events, clients,
                 lastPush, recon, ticks, env, relayDone, finPages>>

DeleteFaults == {{"qdrant", "gridfs"}, {"store"}}

InitDelete == \E fs \in DeleteFaults : InitWith(fs)

NextDelete ==
  \/ \E d \in FirstDoc, k \in {"native", "scanned"} : Upload(d, "u1", k)
  \/ \E d \in FirstDoc : HardDelete(d, "u1")
  \/ \E d \in FirstDoc, n \in {"file-ready", "hard-delete"} : ForeignJob(n, d, "u2")
  \/ Take(1) \/ FileReadyStep(1) \/ HardDeleteStep(1)
  \/ \E j \in HardDeleteJobs : Stall(j)
  \/ Relay

SpecDelete == InitDelete /\ [][NextDelete]_vars

(***************************************************************************)
(* Two documents of one user, ingested and hard-deleted by one worker.     *)
(***************************************************************************)
NextIsolate ==
  \/ \E d \in DocIds, k \in {"native", "scanned"} : Upload(d, "u1", k)
  \/ \E d \in DocIds : HardDelete(d, "u1")
  \/ Take(1) \/ FileReadyStep(1) \/ HardDeleteStep(1)
  \/ Relay

SpecIsolate == InitWith({"store"}) /\ [][NextIsolate]_vars

\* C14: when the row of a hard-delete job is absent or not owned by the job's
\* ownerId (and the store answers), the handler returns at once: it throws
\* nothing, the job completes with the return value that names no document,
\* and no row, collection or blob is changed.
C14_SkipWhenAbsentOrNotOwned ==
  [][\A w \in Workers :
       LET d == wk[w].doc IN
       (/\ wk[w].pc = "hd_check"
        /\ wk'[w] # wk[w]
        /\ "store" \notin faults
        /\ (rows[d] = NoRow \/ rows[d].ownerId # wk[w].own))
       => /\ wk'[w].pc = "idle"
          /\ rows' = rows /\ vec' = vec /\ blobs' = blobs
          /\ HoldsLock(w) =>
               /\ jobs'[wk[w].job].st = "completed"
               /\ events' = Append(events, HdReturnValue(w))]_vars

\* a hard-delete job of another user completed while the document is still
\* ready, indexed and stored
C14_Witness ==
  /\ "store" \notin faults
  /\ \E j \in HardDeleteJobs :
       LET d == jobs[j].doc IN
       /\ jobs[j].st = "completed"
       /\ rows[d] # NoRow
       /\ rows[d].ownerId # jobs[j].owner
       /\ rows[d].status = "ready"
       /\ vec[CollectionOf(d)] > 0
       /\ d \in blobs

\* C15: when the store answers, a hard delete that passed the ownership check
\* never throws: a failed collection drop or blob delete is caught, and the
\* handler reaches its return only with the row removed.
C15_SubStepsIndependent ==
  "store" \notin faults =>
    \A w \in Workers :
      /\ wk[w].pc # "hd_throw"
      /\ wk[w].pc = "hd_return" => rows[wk[w].doc] = NoRow

\* the handler is about to return: the collection drop failed (the points are
\* still there), the blob delete after it succeeded, the row is removed
C15_Witness ==
  /\ "store" \notin faults
  /\ \E w \in Workers :
       /\ wk[w].pc = "hd_return"
       /\ vec[CollectionOf(wk[w].doc)] > 0
       /\ wk[w].doc \notin blobs
       /\ rows[wk[w].doc] = NoRow

\* C16: the relay's completed handler, given the completion of a hard-delete
\* job, writes no row and pushes nothing to any client.
C16_HardDeleteCompletionIgnored ==
  [][(/\ events # <<>>
      /\ Head(events).type = "completed"
      /\ Head(events).name = "hard-delete"
      /\ events' = Tail(events))
     => rows' = rows /\ lastPush' = lastPush]_vars

\* the completion of a hard-delete job was handled by the relay while a
\* document row exists that a ready write could have hit
C16_Witness ==
  /\ events = <<>>
  /\ \E j \in HardDeleteJobs :
       /\ jobs[j].st = "completed"
       /\ rows[jobs[j].doc] # NoRow
       /\ rows[jobs[j].doc].status # "ready"

\* C17: a step of handleFileReady for a job whose declared ownerId differs from
\* the ownerId on the document row changes nothing of that row (status, error,
\* pages).
C17_ForeignIngestionJobMutatesNothing ==
  [][\A w \in Workers :
       LET d == wk[w].doc IN
       (/\ wk[w].job # 0
        /\ jobs[wk[w].job].name = "file-ready"
        /\ wk'[w] # wk[w]
        /\ rows[d] # NoRow
        /\ rows[d].ownerId # wk[w].own)
       => rows'[d] = rows[d]]_vars

C21_FanOutToOwnerOnly ==
  [][/\ lastPush' # lastPush =>
          /\ lastPush'.to = clients[lastPush'.owner]
          /\ \A v \in Owners \ {lastPush'.owner} : lastPush'.to \cap clients[v] = {}
     /\ clients' # clients => lastPush' = lastPush]_vars

\* an event reached the owner's connection while a connection of another user
\* was registered
C21_Witness ==
  /\ lastPush.owner = "u1"
  /\ lastPush.to # {}
  /\ lastPush.others # {}

C23_FailedPersistedAndForwarded ==
  [][(/\ events # <<>>
      /\ Head(events).type = "failed"
      /\ events' = Tail(events))
     => /\ lastPush'.n # lastPush.n
        /\ lastPush'.type = "failed"
        /\ \E j \in 1..Len(jobs) :
             /\ jobs[j].name = "file-ready"
             /\ jobs[j].st = "failed"
             /\ lastPush'.doc = jobs[j].doc
             /\ lastPush'.owner = jobs[j].owner
             /\ rows'[jobs[j].doc].status = "error"
             /\ rows'[jobs[j].doc].error = Head(events).stage]_vars

(***************************************************************************)
(* Progress of one ingestion: one worker and the relay, both scheduled     *)
(* fairly (the worker's fetch loop, each await of the handler and each     *)
(* QueueEvents callback are eventually run); no delete is issued; a call   *)
(* to the document store may reject.                                       *)
(***************************************************************************)
NextLive ==
  \/ \E d \in FirstDoc, k \in {"native", "scanned"} : Upload(d, "u1", k)
  \/ Take(1) \/ FileReadyStep(1)
  \/ Relay

SpecLive ==
  /\ InitWith({"store"})
  /\ [][NextLive]_vars
  /\ WF_vars(Take(1))
  /\ WF_vars(FileReadyStep(1))
  /\ WF_vars(Relay)

\* C24: a document that was uploaded ends, and stays, in status ready or in
\* status error.
C24_EventuallySettled ==
  \A d \in FirstDoc :
    <>(rows[d] # NoRow) =>
      \/ <>[](rows[d] # NoRow /\ rows[d].status = "ready")
      \/ <>[](rows[d] # NoRow /\ rows[d].status = "error")

\* C25: when an execution of handleFileReady leaves its try block, by its
\* return or by a throw, the scratch PDF of its document is gone and so is
\* the whole OCR directory with every per-DPI subdirectory.
C25_ScratchRemovedOnExit ==
  [][\A w \in Workers :
       (/\ wk[w].pc \in {"fr_return", "fr_throw"}
        /\ wk'[w].pc = "idle"
        /\ (wk[w].pc = "fr_return" \/ wk[w].cause # ""))
       => /\ tmpPdf'[wk[w].doc] = NoPdf
          /\ ocrDir'[wk[w].doc] = {}]_vars

\* an attempt that had rasterized a candidate failed in recognition and has
\* left the handler: its job is failed and no scratch file remains
C25_Witness ==
  \E j \in 1..Len(jobs), i \in 1..Len(events) :
    /\ jobs[j].name = "file-ready"
    /\ jobs[j].st = "failed"
    /\ events[i].type = "failed"
    /\ events[i].stage = "OcrFailed"
    /\ tmpPdf[jobs[j].doc] = NoPdf
    /\ ocrDir[jobs[j].doc] = {}
    /\ \A w \in Workers : wk[w].pc = "idle"

-----------------------------------------------------------------------------
\* The text splitter of chunkAndIndex, on its own.
\*
\* A text is a sequence of tokens: 0 is the separator "\n\n" (two characters),
\* k > 0 is the k-th paragraph of the page, a block of lens[k] > 0 characters
\* without leading or trailing white space and without a blank line inside.
\* A page is given by the lengths of its paragraphs; a paragraph of length 0
\* is the empty string between two separators.

CHUNK_SIZE == 1000
CHUNK_OVERLAP == 200
SEPARATOR_LEN == 2

MaxParas == 3
MaxPages == 2

ParaLens == {0, 150, 600, 1200}

PageShapes == UNION {[1..n -> ParaLens] : n \in 0..MaxParas}

PageLists == UNION {[1..n -> PageShapes] : n \in 1..MaxPages}

RECURSIVE JoinParas(_, _)
JoinParas(lens, i) ==
  IF i > Len(lens) THEN <<>>
  ELSE (IF i > 1 THEN <<0>> ELSE <<>>)
         \o (IF lens[i] > 0 THEN <<i>> ELSE <<>>)
         \o JoinParas(lens, i + 1)

\* pageContent of a page whose paragraphs have the lengths lens
PageText(lens) == JoinParas(lens, 1)

RECURSIVE TextLen(_, _)
TextLen(t, lens) ==
  IF t = <<>> THEN 0
  ELSE (IF Head(t) = 0 THEN SEPARATOR_LEN ELSE lens[Head(t)]) + TextLen(Tail(t), lens)

RECURSIVE TrimStart(_)
TrimStart(t) == IF t # <<>> /\ Head(t) = 0 THEN TrimStart(Tail(t)) ELSE t

RECURSIVE TrimEnd(_)
TrimEnd(t) ==
  IF t # <<>> /\ t[Len(t)] = 0 THEN TrimEnd(SubSeq(t, 1, Len(t) - 1)) ELSE t

\* String.prototype.trim: the separator is white space, a paragraph is not
Trim(t) == TrimEnd(TrimStart(t))

\* text.split(separator): the pieces between separators, empty ones included
RECURSIVE SplitRaw(_, _, _)
SplitRaw(t, cur, acc) ==
  IF t = <<>> THEN Append(acc, cur)
  ELSE IF Head(t) = 0 THEN SplitRaw(Tail(t), <<>>, Append(acc, cur))
  ELSE SplitRaw(Tail(t), Append(cur, Head(t)), acc)

\* splitOnSeparator: split, then drop the empty pieces
SplitOnSeparator(t) == SelectSeq(SplitRaw(t, <<>>, <<>>), LAMBDA x : x # <<>>)

RECURSIVE JoinWithSep(_)
JoinWithSep(docs) ==
  IF docs = <<>> THEN <<>>
  ELSE IF Len(docs) = 1 THEN docs[1]
  ELSE docs[1] \o <<0>> \o JoinWithSep(Tail(docs))

\* joinDocs: docs.join(separator).trim(); <<>> stands for null
JoinDocs(docs) == Trim(JoinWithSep(docs))

PushDoc(docs, cur) == IF JoinDocs(cur) = <<>> THEN docs ELSE Append(docs, JoinDocs(cur))

\* currentDoc.shift()
Shift(cur) == Tail(cur)

RECURSIVE SumPieces(_, _)
SumPieces(cur, lens) ==
  IF cur = <<>> THEN 0 ELSE TextLen(Head(cur), lens) + SumPieces(Tail(cur), lens)

\* the while loop of mergeSplits: drop pieces until what is kept is no longer
\* than the overlap and leaves room for the next piece
RECURSIVE PopLoop(_, _, _)
PopLoop(cur, len, lens) ==
  LET total == SumPieces(cur, lens) IN
  IF \/ total > CHUNK_OVERLAP
     \/ total + len + Len(cur) * SEPARATOR_LEN > CHUNK_SIZE /\ total > 0
  THEN PopLoop(Shift(cur), len, lens)
  ELSE cur

RECURSIVE MergeFrom(_, _, _, _, _)
MergeFrom(splits, i, docs, cur, lens) ==
  IF i > Len(splits) THEN PushDoc(docs, cur)
  ELSE
    LET d     == splits[i]
        len   == TextLen(d, lens)
        total == SumPieces(cur, lens)
        over  == total + len + Len(cur) * SEPARATOR_LEN > CHUNK_SIZE
    IN IF over /\ cur # <<>>
       THEN MergeFrom(splits, i + 1, PushDoc(docs, cur),
                      Append(PopLoop(cur, len, lens), d), lens)
       ELSE MergeFrom(splits, i + 1, docs, Append(cur, d), lens)

\* mergeSplits(splits, separator)
MergeSplits(splits, lens) == MergeFrom(splits, 1, <<>>, <<>>, lens)

\* splitText of the CharacterTextSplitter (keepSeparator false)
SplitText(lens) == MergeSplits(SplitOnSeparator(PageText(lens)), lens)

\* the chunks of page p, each with the page it came from
ChunksOfPage(p, lens) ==
  LET ts == SplitText(lens) IN [i \in 1..Len(ts) |-> [page |-> p, text |-> ts[i]]]

InitChunk ==
  /\ InitPipeline({})
  /\ sel = NoSel
  /\ \E ps \in PageLists : chk = [ph |-> "split", pages |-> ps, p |-> 0, out |-> <<>>]

\* one round of the loop of splitDocuments: the next page is split and its
\* chunks are appended
ChunkPage ==
  /\ chk.ph = "split"
  /\ chk.p < Len(chk.pages)
  /\ chk' = [chk EXCEPT !.p = chk.p + 1,
                        !.out = chk.out \o ChunksOfPage(chk.p + 1, chk.pages[chk.p + 1])]
  /\ UNCHANGED <<rows, kind, blobs, vec, tmpPdf, ocrDir, jobs, wk, events, clients,
                 lastPush, recon, ticks, faults, sel, fixed, relayDone, finPages, prog, bulk,
                 keys, auth>>

\* splitDocuments returns; no chunk at all is the "No chunks created" error
ChunkDone ==
  /\ chk.ph = "split"
  /\ chk.p = Len(chk.pages)
  /\ chk' = [chk EXCEPT !.ph = IF chk.out = <<>> THEN "nochunks" ELSE "done"]
  /\ UNCHANGED <<rows, kind, blobs, vec, tmpPdf, ocrDir, jobs, wk, events, clients,
                 lastPush, recon, ticks, faults, sel, fixed, relayDone, finPages, prog, bulk,
                 keys, auth>>

NextChunk == ChunkPage \/ ChunkDone

SpecChunk == InitChunk /\ [][NextChunk]_vars

\* the length of the longest end of prev that is a beginning of cur
Overlap(prev, cur) ==
  LET ks == {k \in 0..(IF Len(prev) < Len(cur) THEN Len(prev) ELSE Len(cur)) :
               SubSeq(prev, Len(prev) - k + 1, Len(prev)) = SubSeq(cur, 1, k)}
  IN CHOOSE k \in ks : \A j \in ks : j <= k

RECURSIVE ConcatNonOverlap(_, _)
ConcatNonOverlap(ts, i) ==
  IF i > Len(ts) THEN <<>>
  ELSE (IF i = 1 THEN ts[1]
        ELSE SubSeq(ts[i], Overlap(ts[i - 1], ts[i]) + 1, Len(ts[i])))
         \o ConcatNonOverlap(ts, i + 1)

ChunkTextsOf(p) ==
  LET cs == SelectSeq(chk.out, LAMBDA c : c.page = p) IN [i \in 1..Len(cs) |-> cs[i].text]

\* C26: when the splitter has returned, the chunks are in page order, every
\* page that has text has a chunk, and the chunks of a page, each without its
\* overlap with the chunk before it, concatenate to the text of the page.
C26_ChunksReconstructPages ==
  chk.ph \in {"done", "nochunks"} =>
    /\ \A i, j \in 1..Len(chk.out) : i < j => chk.out[i].page <= chk.out[j].page
    /\ \A p \in 1..Len(chk.pages) :
         /\ Trim(PageText(chk.pages[p])) # <<>> => \E i \in 1..Len(chk.out) : chk.out[i].page = p
         /\ ConcatNonOverlap(ChunkTextsOf(p), 1) = Trim(PageText(chk.pages[p]))

-----------------------------------------------------------------------------
\* The stages handleFileReady publishes for a document, in program order; the
\* ocr stage belongs to it only when the OCR decision is taken.
StageOrder(d) ==
  <<[pct |-> 5, stage |-> "start"], [pct |-> 10, stage |-> "download"],
    [pct |-> 30, stage |-> "pdf-parse"]>>
  \o (IF ShouldOCR(PdfPages(kind[d])) THEN <<[pct |-> 45, stage |-> "ocr"]>> ELSE <<>>)
  \o <<[pct |-> 70, stage |-> "chunking"], [pct |-> 90, stage |-> "indexing"]>>

FailedStage == [pct |-> 100, stage |-> "failed"]

\* C27: what one attempt has published so far is, in this order, stages of
\* start, download, pdf-parse, [ocr], chunking, indexing with strictly
\* increasing pct, none twice, followed by at most one failed stage (pct 100)
\* which is the last one; with a working progress channel no stage is skipped;
\* an attempt that returns has published every stage from download to indexing
\* and no failed stage, and an attempt that leaves through the catch block with
\* a working store and progress channel has published failed last.
C27_StagesInOrder ==
  \A w \in Workers :
    LET s == prog[w]
        d == wk[w].doc
        n == Len(SelectSeq(s, LAMBDA x : x # FailedStage))
    IN /\ wk[w].pc = "idle" => s = <<>>
       /\ s # <<>> =>
            /\ \A i \in 1..Len(s) : s[i] = FailedStage => i = Len(s)
            /\ \A i \in 1..n : \E k \in 1..Len(StageOrder(d)) : s[i] = StageOrder(d)[k]
            /\ \A i, j \in 1..Len(s) : i < j => s[i].pct < s[j].pct
            /\ "progress" \notin faults => SubSeq(s, 1, n) = SubSeq(StageOrder(d), 1, n)
       /\ wk[w].pc = "fr_return" =>
            /\ n = Len(s)
            /\ \E k \in {0, 1} : s = SubSeq(StageOrder(d), 1 + k, Len(StageOrder(d)))
       /\ wk[w].pc = "fr_throw" /\ wk[w].cause # "" /\ faults \cap {"store", "progress"} = {} =>
            s # <<>> /\ s[Len(s)] = FailedStage

\* an attempt on a scanned document is about to return having published all
\* six stages, ocr included
C27_Witness ==
  \E w \in Workers :
    /\ wk[w].pc = "fr_return"
    /\ prog[w] = StageOrder(wk[w].doc)
    /\ Len(prog[w]) = 6

-----------------------------------------------------------------------------
\* C28: an attempt goes from native extraction into the OCR fallback if and
\* only if OCR is enabled and the native text is shorter than 800 characters or
\* every native page is empty or white space; nothing is rasterized for a
\* document for which that does not hold, no OCR pass is considered for it,
\* and its finalize step writes ready with the number of native pages (2 for
\* the two-page document of 3000 characters), which its completion reports.
C28_OcrIffLowOrBlank ==
  [][\A w \in Workers :
       LET d     == wk[w].doc
           pages == PdfPages(kind[d])
           low   == OCR_ENABLED /\ (SumLen(pages) < 800 \/ \A i \in 1..Len(pages) : pages[i].blank)
       IN /\ wk[w].pc = "fr_extract" /\ wk'[w].pc \in {"fr_ocr", "fr_index"}
               => (wk'[w].pc = "fr_ocr" <=> low)
          /\ wk[w].pc \in {"fr_ocr", "fr_raster", "fr_recog"} => low
          /\ wk[w].pc # "idle" /\ ~low =>
               /\ ocrDir'[d] = {}
               /\ wk'[w].best = BestInit
               /\ wk[w].pc = "fr_finalize" /\ wk'[w].pc = "fr_return" =>
                    /\ rows'[d].status = "ready"
                    /\ rows'[d].pages = Len(pages)
                    /\ kind[d] = "native" => rows'[d].pages = 2
               /\ wk[w].pc = "fr_return" /\ Len(events') > Len(events) =>
                    /\ events'[Len(events')].type = "completed"
                    /\ events'[Len(events')].pages = Len(pages)]_vars

\* the two-page document of 3000 characters is ready with pages = 2, its
\* attempt has returned and nothing was rasterized
C28_Witness ==
  /\ kind[1] = "native"
  /\ TotalTextLen(PdfPages("native")) = 3000
  /\ rows[1] # NoRow /\ rows[1].status = "ready" /\ rows[1].pages = 2
  /\ \E j \in 1..Len(jobs) : jobs[j].doc = 1 /\ jobs[j].st = "completed"
  /\ ocrDir[1] = {}

-----------------------------------------------------------------------------
\* C29: among the DPI candidates tried so far that produced page images, the
\* selected pass has the greatest textLen; among those of that textLen it has
\* the highest mean confidence, a pass without confidence counting as 0; and
\* among those equal in both it is the earliest.  No candidate with images
\* means no pass is selected.
C29_BestPassSelected ==
  sel.ph \in {"loop", "done"} =>
    LET res(j)   == OcrImagesToDocuments(sel.passes[j].lens, sel.passes[j].confs)
        num(j)   == IF res(j).meanConf.cnt = 0 THEN 0 ELSE res(j).meanConf.sum
        den(j)   == IF res(j).meanConf.cnt = 0 THEN 1 ELSE res(j).meanConf.cnt
        geq(a, b) == \/ res(a).textLen > res(b).textLen
                     \/ /\ res(a).textLen = res(b).textLen
                        /\ num(a) * den(b) >= num(b) * den(a)
        tried    == {j \in 1..(sel.i - 1) : sel.passes[j].lens # <<>>}
    IN IF tried = {}
       THEN sel.best = BestInit
       ELSE /\ sel.best.hasDocs
            /\ sel.best.dpi \in tried
            /\ sel.best.docs = res(sel.best.dpi).docs
            /\ sel.best.textLen = res(sel.best.dpi).textLen
            /\ \A j \in tried :
                 /\ geq(sel.best.dpi, j)
                 /\ j < sel.best.dpi => ~geq(j, sel.best.dpi)

\* two candidates with the same text length and the same confidence: the
\* first one is the selected pass; and two with the same text length of which
\* the second is selected
C29_Witness ==
  /\ sel.ph = "done"
  /\ Len(sel.passes) = 2
  /\ sel.passes[1] = sel.passes[2]
  /\ sel.passes[1].lens = <<100>>
  /\ sel.best.dpi = 1
  /\ sel.usedOcr

-----------------------------------------------------------------------------
\* C30: a rasterization step of the OCR fallback never makes the attempt fail:
\* whether it yields no page image or errors, the attempt goes on to the next
\* candidate or to Chunk+Index with the selection unchanged; an attempt that
\* reaches Chunk+Index with no pass selected indexes the native pages, and
\* when those are empty its chunking step fails with the zero-chunks error.
C30_RasterFailureKeepsNative ==
  [][\A w \in Workers :
       LET d == wk[w].doc IN
       /\ wk[w].pc = "fr_raster" /\ wk'[w] # wk[w] =>
            /\ wk'[w].pc \in {"fr_recog", "fr_raster", "fr_index"}
            /\ wk'[w].pc # "fr_recog" => wk'[w].best = wk[w].best
       /\ wk[w].pc = "fr_index" /\ ~wk[w].best.hasDocs =>
            /\ BaseDocs(w) = NativeDocs(PdfPages(kind[d]))
            /\ AllBlank(PdfPages(kind[d])) /\ wk'[w] # wk[w] /\ Len(events') > Len(events) =>
                 /\ wk'[w].pc = "fr_catch"
                 /\ wk'[w].cause = "No chunks created from document text"]_vars

-----------------------------------------------------------------------------
\* C31: in an attempt, the chunks written to the index all carry ocr = true
\* when the chosen source is the OCR pass and ocr = false when the native pages
\* were kept; the pages value written at finalize and the pages value of the
\* completion payload are the number of pages of the chosen source.
C31_PagesAndOcrFlagOfChosenSource ==
  [][\A w \in Workers :
       LET d      == wk[w].doc
           chosen == wk[w].best.hasDocs /\ wk[w].best.textLen > 0
           src    == IF chosen THEN wk[w].best.docs ELSE NativeDocs(PdfPages(kind[d]))
           c      == CollectionOf(d)
       IN /\ wk[w].pc = "fr_index" /\ vec' # vec =>
               /\ vec'[c] - (IF vec[c] < 0 THEN 0 ELSE vec[c]) = Len(ChunkMetas(src))
               /\ ChunkMetas(BaseDocs(w)) = ChunkMetas(src)
               /\ \A i \in 1..Len(ChunkMetas(BaseDocs(w))) :
                    ChunkMetas(BaseDocs(w))[i].ocr = chosen
          /\ wk[w].pc = "fr_finalize" /\ wk'[w].pc = "fr_return" /\ rows'[d] # NoRow =>
               /\ rows'[d].status = "ready"
               /\ rows'[d].pages = Len(src)
          /\ wk[w].pc = "fr_return" /\ Len(events') > Len(events) =>
               /\ events'[Len(events')].type = "completed"
               /\ events'[Len(events')].pages = Len(src)]_vars

\* the one-page image-only PDF: its attempt is about to return after OCR was
\* chosen, the row is ready with pages = 1 and the chunk written carries ocr = true
C31_Witness ==
  \E w \in Workers :
    /\ wk[w].pc = "fr_return"
    /\ kind[wk[w].doc] = "scanned"
    /\ Len(PdfPages("scanned")) = 1 /\ AllBlank(PdfPages("scanned"))
    /\ wk[w].best.hasDocs
    /\ rows[wk[w].doc] # NoRow
    /\ rows[wk[w].doc].status = "ready" /\ rows[wk[w].doc].pages = 1
    /\ vec[CollectionOf(wk[w].doc)] > 0
    /\ ChunkMetas(BaseDocs(w)) = <<[ocr |-> TRUE]>>

-----------------------------------------------------------------------------
\* C32: in every reachable state a document whose status is ready has a pages
\* value that is not null.
C32_ReadyHasPages ==
  \A d \in DocIds :
    rows[d] # NoRow /\ rows[d].status = "ready" => rows[d].pages # NullPages

-----------------------------------------------------------------------------
\* C33: in every reachable state a document row whose status is ready has a
\* vector collection that exists and holds at least one point.
C33_ReadyHasPoints ==
  \A d \in DocIds :
    rows[d] # NoRow /\ rows[d].status = "ready" => vec[CollectionOf(d)] > 0

-----------------------------------------------------------------------------
(* A hard delete requested while the ingestion of the same document may be *)
(* running: the worker process runs its jobs concurrently (two slots); the *)
(* document store may fail.                                                *)
NextRace ==
  \/ \E d \in FirstDoc, k \in {"native", "scanned"} : Upload(d, "u1", k)
  \/ \E d \in FirstDoc : HardDelete(d, "u1")
  \/ \E w \in Workers : Take(w) \/ FileReadyStep(w) \/ HardDeleteStep(w) \/ Restart(w)
  \/ Relay

SpecRace == InitWith({"store"}) /\ [][NextRace]_vars

\* C34: once a hard-delete job of a document has deleted its row (its drop of
\* the collection having succeeded) and every job of the document has
\* finished, the document has no vector collection.
C34_NoCollectionAfterHardDelete ==
  \A d \in DocIds :
    (/\ \E j \in 1..Len(jobs) :
          jobs[j].doc = d /\ jobs[j].name = "hard-delete" /\ jobs[j].st = "completed"
     /\ rows[d] = NoRow
     /\ \A j \in 1..Len(jobs) : jobs[j].doc = d => jobs[j].st \in {"completed", "failed"}
     /\ \A w \in Workers : wk[w].pc = "idle")
    => vec[CollectionOf(d)] = -1

-----------------------------------------------------------------------------
\* Writers after a removal: a scanned document is hard-deleted while its
\* ingestion, the relay and a reconcile asked for by the owner are under way.
NextGone ==
  \/ \E d \in FirstDoc : Upload(d, "u1", "scanned") \/ HardDelete(d, "u1")
                           \/ ManualReconcile(d, "u1")
  \/ \E w \in Workers : Take(w) \/ FileReadyStep(w) \/ HardDeleteStep(w)
  \/ \E t \in recon : ReconCheck(t) \/ ReconWrite(t)
  \/ Relay

SpecGone == InitWith({"store"}) /\ [][NextGone]_vars

\* C35: once the row of an uploaded document has been removed, no step of the
\* ingestion worker, the relay or the reconciler makes a row with that id
\* exist again.
C35_RemovedRowStaysRemoved ==
  [][\A d \in DocIds : kind[d] # "none" /\ rows[d] = NoRow => rows'[d] = NoRow]_vars

\* after the removal the worker's error write ran and matched nothing, while a
\* reconcile write for the document is still due and the relay has events to
\* handle
C35_Witness ==
  \E w \in Workers :
    /\ wk[w].pc = "fr_catch_emit"
    /\ ~wk[w].errW
    /\ kind[wk[w].doc] # "none"
    /\ rows[wk[w].doc] = NoRow
    /\ \E t \in recon : t.doc = wk[w].doc /\ t.ph = "write"
    /\ events # <<>>

-----------------------------------------------------------------------------
(***************************************************************************)
(* Delete requests and the jobs they enqueue: documents are uploaded while *)
(* single, soft and bulk deletes are served; the queue and the store may   *)
(* fail.  The jobs stay in the queue: no worker is attached.               *)
(***************************************************************************)
NextBulk ==
  \/ \E d \in DocIds : \/ Upload(d, "u1", "native")
                       \/ HardDelete(d, "u1")
                       \/ SoftDelete(d, "u1")
  \/ BulkFind("u1")
  \/ \E b \in bulk : BulkMark(b) \/ BulkEnqueue(b)

SpecBulk == InitWith({"queue", "store"}) /\ [][NextBulk]_vars

\* C36: when no bulk delete request is in flight, every document whose status
\* is deleting has a hard-delete job in the queue.
C36_DeletingHasJob ==
  \A d \in DocIds :
    rows[d] # NoRow /\ rows[d].status = "deleting" /\ bulk = {}
      => \E j \in 1..Len(jobs) : jobs[j].name = "hard-delete" /\ jobs[j].doc = d

-----------------------------------------------------------------------------
\* C37: when a reconcile request read the document as queued or processing
\* and, by the time it performs its write, the document's status is error,
\* deleted or deleting, the write leaves that status as it is.
C37_RepairKeepsLaterStatus ==
  [][\A t \in recon :
       (/\ t.ph = "write"
        /\ t.readStatus \in {"queued", "processing"}
        /\ t \notin recon'
        /\ rows[t.doc] # NoRow
        /\ rows[t.doc].status \in {"error", "deleted", "deleting"})
       => rows'[t.doc].status = rows[t.doc].status]_vars

-----------------------------------------------------------------------------
(***************************************************************************)
(* Two owners and the reconciler: one of them uploads a scanned document,  *)
(* both open a live connection and ask for lists and for a reconcile of    *)
(* the document's id; one worker ingests, the relay handles its events;    *)
(* the store may fail.                                                     *)
(***************************************************************************)
NextOwner ==
  \/ \E d \in FirstDoc, u \in Owners : Upload(d, u, "scanned") \/ ManualReconcile(d, u)
  \/ Connect("u1", "c1") \/ Connect("u2", "c2")
  \/ Take(1) \/ FileReadyStep(1)
  \/ Relay
  \/ Tick
  \/ \E u \in Owners : ListDocuments(u, FALSE)
  \/ \E t \in recon : ReconCheck(t) \/ ReconWrite(t)

SpecOwner == InitWith({"store"}) /\ [][NextOwner]_vars

\* C38: a reconcile request of user U takes up only documents owned by U; the
\* step that ends it changes no row of another owner, and a push it makes
\* names U and reaches no connection of another user.
C38_ReconcilerStaysWithOwner ==
  [][/\ \A t \in recon' \ recon :
          t.ph = "check" => rows[t.doc] # NoRow /\ rows[t.doc].ownerId = t.user
     /\ \A t \in recon :
          t \notin recon' =>
            /\ \A d \in DocIds :
                 rows'[d] # rows[d] => rows[d] # NoRow /\ rows[d].ownerId = t.user
            /\ lastPush' # lastPush =>
                 /\ lastPush'.owner = t.user
                 /\ lastPush'.to \subseteq clients[t.user]
                 /\ lastPush'.to \cap UNION {clients[v] : v \in Owners \ {t.user}} = {}]_vars

\* a repair for u1's document was written and pushed to u1's connection while
\* u2 holds a live connection
C38_Witness ==
  /\ \E f \in fixed : rows[f.doc] # NoRow /\ rows[f.doc].ownerId = "u1"
  /\ lastPush.type = "completed" /\ lastPush.owner = "u1" /\ lastPush.to = {"c1"}
  /\ lastPush.status = RepairedStatus /\ lastPush.pages = NullPages
  /\ clients["u2"] = {"c2"}

-----------------------------------------------------------------------------
\* C39: after every step, a connection found in the registry is found under
\* the userId its request authenticated as; no key of the registry has an
\* empty connection set; a connection whose close handler ran in the step is
\* in no set of the registry; and a push made in the step writes only to
\* connections that were live before it, all of them of the pushed-to user.
C39_RegistryWellFormed ==
  [][/\ \A u \in Owners : \A c \in clients'[u] : auth'[c] = u
     /\ \A u \in keys' : clients'[u] # {}
     /\ \A c \in Conns :
          auth[c] # "none" /\ auth'[c] = "none" => \A v \in Owners : c \notin clients'[v]
     /\ lastPush' # lastPush =>
          lastPush'.to \subseteq {c \in Conns : auth[c] = lastPush'.owner}]_vars

\* a push was written to both connections of u1; since then both were closed
\* and the registry is empty
C39_Witness ==
  /\ lastPush.owner = "u1"
  /\ lastPush.to = Conns
  /\ keys = {}
  /\ \A u \in Owners : clients[u] = {}
  /\ \A c \in Conns : auth[c] = "none"

====
